---- MODULE Spec2Model ----
(***************************************************************************)
(* Hidden-QE signal engine of bitcoin_bunseki.                             *)
(*                                                                         *)
(* Numbers.  Python floats are modelled in fixed point with one decimal:   *)
(* a percentage, a z-score or an amount in billions of dollars x is the    *)
(* integer 10*x ("tenths").  Amounts as FRED reports them (millions of     *)
(* dollars) and USDJPY levels (yen) are plain integers.  Every threshold   *)
(* of config.py is a multiple of 0.1.  Where the program divides, the      *)
(* inputs tried are such that the quotient is a whole number of tenths, or *)
(* the comparison is one (>= against a whole number of tenths) that the    *)
(* floor of the quotient decides as the quotient does.                     *)
(*                                                                         *)
(* None.  Python's None (and pandas' NaN, which every comparison answers   *)
(* False for) is the empty set; a present value v is the set {v}.          *)
(***************************************************************************)
EXTENDS Integers, Sequences, FiniteSets, TLC

None == {}
Some(v) == {v}
Get(x) == CHOOSE v \in x : TRUE

\* A faulty Abs, to try the properties on: the sign is kept.
AbsSigned(x) == x

Abs(x) == IF x < 0 THEN 0 - x ELSE x

(***************************************************************************)
(* config.py: thresholds of the hidden-QE conditions (in tenths, see       *)
(* above; USDJPY_HIGH_LEVEL in yen).                                       *)
(***************************************************************************)
SWAPS_SURGE_THRESHOLD_PCT == 100
SWAPS_SURGE_THRESHOLD_ABS == 50
SWAPS_SURGE_ZSCORE_THRESHOLD == 20
SWAPS_MINIMUM_VALUE == 10
USDJPY_WEAKENING_THRESHOLD == 10
USDJPY_HIGH_LEVEL == 150
USDJPY_HIGH_VOLATILITY == 15
TOTAL_ASSETS_INCREASE_THRESHOLD == 1
TREASURY_HOLDINGS_INCREASE_THRESHOLD == 5

\* The values config.py gives the two score thresholds.
DEFAULT_SIGNAL_ON == 4
DEFAULT_SIGNAL_WATCH == 2

\* Score thresholds tried as configurations: -1..MaxThreshold for each.
MaxThreshold == 5

\* The weekly history spans the dates 1..NDates (dates compare as their
\* ISO strings do); the z-score needs ZSCORE_MIN_SAMPLES of them.
NDates == 11

VARIABLES
    HIDDEN_QE_SIGNAL_ON,     \* config.HIDDEN_QE_SIGNAL_ON
    HIDDEN_QE_SIGNAL_WATCH,  \* config.HIDDEN_QE_SIGNAL_WATCH
    SCORE_CALC_MODE,         \* config.SCORE_CALC_MODE
    FRED_API_KEY,            \* whether config.FRED_API_KEY is set (and not the placeholder)
    ETF_GIST_URL,            \* whether config.ETF_GIST_URL is set
    pc,                      \* which program runs or ran: "idle", "live", "evaluate",
                             \* "data", "data_failed", "weekly", "weekly_done",
                             \* "weekly_error", "history", "history_error"
    walcl_data,              \* the four observations handed to the classifier
    swpt_data,
    treast_data,
    usdjpy_data,
    hidden_qe,               \* calculate_hidden_qe_signal's return value, or None
    result,                  \* evaluate_hidden_qe_conditions' return value, or None
    walcl,                   \* get_arthur_scenario_history: date -> value (millions)
    swpt,
    treast,
    usdjpy_weekly,           \* its usdjpy_data: date -> [value, change]
    i,                       \* the loop's index into dates, from 0
    prev_signal,
    weekly_signals,
    on_transitions,
    score_mode_arg,          \* get_data: the request's score_mode parameter, or None
    results,                 \* get_data: what fetch_all_data's other tasks returned
    response,                \* get_data: the JSON it returns, or None
    hist_results,            \* analyze_hidden_qe_history: its results, one per date
    hist_i,                  \* how many of them the transition loop has visited
    hist_prev_signal,        \* the transition loop's prev_signal
    transitions,             \* its transitions
    watch_i,                 \* how many results the WATCH->ON loop has visited
    watch_prev_signal,       \* that loop's prev_signal, set to "OFF" again before it
    watch_to_on,             \* its watch_to_on
    etf_cache,               \* data_provider._etf_cache: [data, timestamp]
    clock,                   \* datetime.now(), in seconds
    rq,                      \* the /api/data requests being served: each one's position
                             \* and locals
    calls,                   \* how many requests have been started
    overlapped               \* whether a request has started while another was served

live_vars == <<walcl_data, swpt_data, treast_data, usdjpy_data, hidden_qe, result>>
weekly_vars == <<walcl, swpt, treast, usdjpy_weekly, i, prev_signal, weekly_signals,
                 on_transitions>>
config_vars == <<HIDDEN_QE_SIGNAL_ON, HIDDEN_QE_SIGNAL_WATCH, SCORE_CALC_MODE,
                 FRED_API_KEY, ETF_GIST_URL>>
data_vars == <<score_mode_arg, results, response>>
scan_vars == <<hist_results, hist_i, hist_prev_signal, transitions, watch_i,
               watch_prev_signal, watch_to_on>>
serve_vars == <<etf_cache, clock, rq, calls, overlapped>>
other_vars == <<config_vars, pc, live_vars, weekly_vars, data_vars, scan_vars>>
vars == <<config_vars, pc, live_vars, weekly_vars, data_vars, scan_vars, serve_vars>>

CONDITIONS == {"total_assets", "treasury", "swaps", "usdjpy"}

(***************************************************************************)
(* data_provider._etf_cache and the requests that share it.                *)
(***************************************************************************)
ETF_CACHE_DURATION == 3600

EmptyCache == [data |-> None, timestamp |-> None]

\* A faulty test of the payload, to try the properties on: any payload passes.
HasData(data) == data # None

\* `data and data.get("total_daily_flow") is not None`
HasFlow(data) == data # None /\ Get(data).total_daily_flow # None

\* How many requests can be in service at once, and how many are started.
NRequests == 2
MaxCalls == 3
Requests == 1..NRequests

\* The clock moves in steps of half the cache's lifetime, MaxClock times.
MaxClock == 2
ClockStep == ETF_CACHE_DURATION \div 2

IdleRequest ==
    [pc |-> "idle", v |-> None, now |-> 0, seen |-> EmptyCache, http_requests |-> 0,
     first_status |-> 0, last_status |-> 0, raised |-> FALSE, data |-> None,
     etf_flow |-> None,
     alone |-> None, response |-> None]

(***************************************************************************)
(* Millions of dollars to billions: x / 1000, in tenths, floored.          *)
(***************************************************************************)
MillionsToBillions(x) == (x * 10) \div 1000

(***************************************************************************)
(* calculate_hidden_qe_signal (server.py), condition by condition.  Each   *)
(* operator gives the details entry of its condition and what the          *)
(* condition adds to the score ("inc").                                     *)
(***************************************************************************)
\* A faulty DetailsInit, to try the properties on: the initial entry carries an ordinary status.
DetailsInitNormal ==
    [status |-> "normal", value |-> None, change |-> None, met |-> FALSE]

DetailsInit ==
    [status |-> "data_fetch_failed", value |-> None, change |-> None, met |-> FALSE]

\* A faulty TotalAssetsMet, to try the properties on: a non-strict comparison.
TotalAssetsMetNonStrict(change) == change >= TOTAL_ASSETS_INCREASE_THRESHOLD

TotalAssetsMet(change) == change > TOTAL_ASSETS_INCREASE_THRESHOLD

LiveTotalAssets(data) ==
    IF data # None /\ Get(data).change # None
    THEN LET change == Get(Get(data).change)
             met == TotalAssetsMet(change)
         IN  [inc |-> IF met THEN 1 ELSE 0,
              detail |-> [status |-> IF met THEN "increase" ELSE "flat_or_decrease",
                          value |-> Some(Get(data).value),
                          change |-> Some(change),
                          met |-> met]]
    ELSE [inc |-> 0, detail |-> DetailsInit]

TreasuryMet(change) == change < TREASURY_HOLDINGS_INCREASE_THRESHOLD

LiveTreasury(data) ==
    IF data # None /\ Get(data).change # None
    THEN LET change == Get(Get(data).change)
             met == TreasuryMet(change)
         IN  [inc |-> IF met THEN 1 ELSE 0,
              detail |-> [status |-> IF met THEN "inactive" ELSE "active",
                          value |-> Some(Get(data).value),
                          change |-> Some(change),
                          met |-> met]]
    ELSE [inc |-> 0, detail |-> DetailsInit]

\* A faulty SwapsConditionA, to try the properties on: the weekly increase is not looked at.
SwapsConditionANoAbs(value_b, change_pct, change_abs_b) ==
    /\ value_b >= SWAPS_MINIMUM_VALUE
    /\ change_pct >= SWAPS_SURGE_THRESHOLD_PCT

\* Sub-condition A: weekly % and weekly increase, gated by the minimum value.
SwapsConditionA(value_b, change_pct, change_abs_b) ==
    /\ value_b >= SWAPS_MINIMUM_VALUE
    /\ change_pct >= SWAPS_SURGE_THRESHOLD_PCT
    /\ change_abs_b >= SWAPS_SURGE_THRESHOLD_ABS

\* A faulty SwapsConditionB, to try the properties on: a strict comparison.
SwapsConditionBStrict(zscore) == zscore > SWAPS_SURGE_ZSCORE_THRESHOLD

\* Sub-condition B: the z-score alone.
SwapsConditionB(zscore) == zscore >= SWAPS_SURGE_ZSCORE_THRESHOLD

LiveSwaps(data) ==
    IF data # None /\ Get(data).change # None
    THEN LET change_pct == Get(Get(data).change)
             value == Get(data).value
             value_b == IF value # 0 THEN MillionsToBillions(value) ELSE 0
             change_abs == IF Get(data).change_abs = None THEN 0
                           ELSE Get(Get(data).change_abs)
             change_abs_b == IF change_abs # 0 THEN MillionsToBillions(change_abs) ELSE 0
             zscore == IF Get(data).zscore = None THEN 0 ELSE Get(Get(data).zscore)
             met_reasons ==
                 (IF SwapsConditionA(value_b, change_pct, change_abs_b) THEN {"A"} ELSE {})
                 \cup (IF SwapsConditionB(zscore) THEN {"B"} ELSE {})
             met == met_reasons # {}
         IN  [inc |-> IF met THEN 1 ELSE 0,
              detail |-> [status |-> IF met THEN "surge" ELSE "normal",
                          value |-> Some(value),
                          value_b |-> value_b,
                          change |-> Some(change_pct),
                          change_abs_b |-> change_abs_b,
                          zscore |-> zscore,
                          met_reasons |-> met_reasons,
                          met |-> met]]
    ELSE [inc |-> 0, detail |-> DetailsInit]

UsdjpyWeakening(change) == change >= USDJPY_WEAKENING_THRESHOLD

UsdjpyIntervention(value, volatility) ==
    value >= USDJPY_HIGH_LEVEL /\ volatility >= USDJPY_HIGH_VOLATILITY

LiveUsdjpy(data) ==
    IF data # None /\ Get(data).change # None
    THEN LET change == Get(Get(data).change)
             value == Get(data).value
             volatility == Abs(change)
             met == UsdjpyWeakening(change) \/ UsdjpyIntervention(value, volatility)
             status ==
                 IF UsdjpyWeakening(change) THEN "yen_weakening"
                 ELSE IF UsdjpyIntervention(value, volatility) THEN "intervention_watch"
                 ELSE IF change <= 0 - USDJPY_WEAKENING_THRESHOLD THEN "yen_strengthening"
                 ELSE "stable"
         IN  [inc |-> IF met THEN 1 ELSE 0,
              detail |-> [status |-> status,
                          value |-> Some(value),
                          change |-> Some(change),
                          volatility |-> volatility,
                          met |-> met]]
    ELSE [inc |-> 0, detail |-> DetailsInit]

\* A faulty SignalOfScore, to try the properties on: strict comparisons.
SignalOfScoreStrict(score) ==
    IF score > HIDDEN_QE_SIGNAL_ON THEN "ON"
    ELSE IF score > HIDDEN_QE_SIGNAL_WATCH THEN "WATCH"
    ELSE "OFF"

\* A faulty IsOnTransition, to try the properties on: every ON is a transition.
IsOnTransitionEveryOn(prev, signal) == signal = "ON"

\* if prev_signal != "ON" and signal == "ON"
IsOnTransition(prev, signal) == prev # "ON" /\ signal = "ON"

\* The three-way signal of a score, under the thresholds of the configuration.
SignalOfScore(score) ==
    IF score >= HIDDEN_QE_SIGNAL_ON THEN "ON"
    ELSE IF score >= HIDDEN_QE_SIGNAL_WATCH THEN "WATCH"
    ELSE "OFF"

calculate_hidden_qe_signal(walcl_d, swpt_d, treast_d, usdjpy_d) ==
    LET ta == LiveTotalAssets(walcl_d)
        tr == LiveTreasury(treast_d)
        sw == LiveSwaps(swpt_d)
        uj == LiveUsdjpy(usdjpy_d)
        score == ta.inc + tr.inc + sw.inc + uj.inc
    IN  [signal |-> SignalOfScore(score),
         score |-> score,
         details |-> [total_assets |-> ta.detail, treasury |-> tr.detail,
                      swaps |-> sw.detail, usdjpy |-> uj.detail]]

(***************************************************************************)
(* evaluate_hidden_qe_conditions (analyze_hidden_qe_history.py).  A row is *)
(* a DataFrame row as a dict; a NaN cell is None here (pd.notna is False   *)
(* for it, and "NaN or 0" stays NaN, which no comparison is True for).     *)
(* The row's change_pct column is the field change.                        *)
(***************************************************************************)
EvalTotalAssets(row) ==
    IF row # None /\ Get(row).change # None
    THEN LET met == TotalAssetsMet(Get(Get(row).change))
         IN  [inc |-> IF met THEN 1 ELSE 0, met |-> met, detailed |-> TRUE]
    ELSE [inc |-> 0, met |-> FALSE, detailed |-> FALSE]

EvalTreasury(row) ==
    IF row # None /\ Get(row).change # None
    THEN LET met == TreasuryMet(Get(Get(row).change))
         IN  [inc |-> IF met THEN 1 ELSE 0, met |-> met, detailed |-> TRUE]
    ELSE [inc |-> 0, met |-> FALSE, detailed |-> FALSE]

EvalSwaps(row) ==
    IF row # None /\ Get(row).change # None
    THEN LET change_pct == Get(Get(row).change)
             value == Get(row).value
             value_b == IF value # 0 THEN MillionsToBillions(value) ELSE 0
             change_abs == Get(row).change_abs
             zscore == Get(row).zscore
             condA == /\ change_abs # None
                      /\ SwapsConditionA(value_b, change_pct,
                                         MillionsToBillions(Get(change_abs)))
             condB == zscore # None /\ SwapsConditionB(Get(zscore))
             met == condA \/ condB
         IN  [inc |-> IF met THEN 1 ELSE 0, met |-> met, detailed |-> TRUE]
    ELSE [inc |-> 0, met |-> FALSE, detailed |-> FALSE]

EvalUsdjpy(row) ==
    IF row # None /\ Get(row).change # None
    THEN LET change == Get(Get(row).change)
             value == Get(row).value
             volatility == Abs(change)
             met == UsdjpyWeakening(change) \/ UsdjpyIntervention(value, volatility)
         IN  [inc |-> IF met THEN 1 ELSE 0, met |-> met, detailed |-> TRUE]
    ELSE [inc |-> 0, met |-> FALSE, detailed |-> FALSE]

evaluate_hidden_qe_conditions(walcl_row, swpt_row, treast_row, usdjpy_row) ==
    LET ta == EvalTotalAssets(walcl_row)
        tr == EvalTreasury(treast_row)
        sw == EvalSwaps(swpt_row)
        uj == EvalUsdjpy(usdjpy_row)
        score == ta.inc + tr.inc + sw.inc + uj.inc
    IN  [signal |-> SignalOfScore(score),
         score |-> score,
         conditions |-> [total_assets |-> ta.met, treasury |-> tr.met,
                         swaps |-> sw.met, usdjpy |-> uj.met],
         details |-> (IF ta.detailed THEN {"total_assets"} ELSE {})
                     \cup (IF tr.detailed THEN {"treasury"} ELSE {})
                     \cup (IF sw.detailed THEN {"swaps"} ELSE {})
                     \cup (IF uj.detailed THEN {"usdjpy"} ELSE {})]

(***************************************************************************)
(* Percentage change (cur - prev) / prev * 100, in tenths.  The values     *)
(* tried divide exactly.                                                   *)
(***************************************************************************)
PctChange(cur, prev) == ((cur - prev) * 1000) \div prev

(***************************************************************************)
(* data_provider.get_fred_data_with_change on the valid observations of    *)
(* the response, newest first.  An unset API key gives None before any     *)
(* request; a failed request gives None, as no observation does.           *)
(***************************************************************************)
get_fred_data_with_change(valid_obs) ==
    IF ~FRED_API_KEY
    THEN None
    ELSE IF Len(valid_obs) >= 2
    THEN LET current == valid_obs[1]
             previous == valid_obs[2]
             change == IF previous # 0 THEN PctChange(current, previous) ELSE 0
         IN  Some([value |-> current, prev_value |-> Some(previous),
                   change |-> Some(change)])
    ELSE IF Len(valid_obs) = 1
    THEN Some([value |-> valid_obs[1], prev_value |-> None, change |-> Some(0)])
    ELSE None

\* data_provider.get_usdjpy on the non-null closes of the response, oldest first.
get_usdjpy(closes) ==
    IF closes = <<>>
    THEN None
    ELSE LET current == closes[Len(closes)]
             change == IF Len(closes) > 1
                       THEN PctChange(closes[Len(closes)], closes[1])
                       ELSE 0
         IN  Some([value |-> current, change |-> Some(change)])

(***************************************************************************)
(* get_arthur_scenario_history (server.py): the weekly loop.               *)
(***************************************************************************)
ZSCORE_WINDOW == 52
ZSCORE_MIN_SAMPLES == 10

\* A dict without keys.
EmptySeries == [d \in {} |-> 0]

\* sorted(S)
RECURSIVE SortedSeq(_)
SortedSeq(S) ==
    IF S = {}
    THEN <<>>
    ELSE LET m == CHOOSE x \in S : \A y \in S : x <= y
         IN  <<m>> \o SortedSeq(S \ {m})

\* seq[lo:hi] of Python, indices from 0.
Slice(seq, lo, hi) ==
    SubSeq(seq, lo + 1, IF hi < Len(seq) THEN hi ELSE Len(seq))

RECURSIVE SumSeq(_)
SumSeq(seq) == IF seq = <<>> THEN 0 ELSE Head(seq) + SumSeq(Tail(seq))

\* d.get(key, default)
DictGet(d, key, default) == IF key \in DOMAIN d THEN d[key] ELSE default

\* The loop over hist.iterrows() that fills usdjpy_data from the weekly closes.
BuildUsdjpy(closes) ==
    [d \in DOMAIN closes |->
        LET earlier == {e \in DOMAIN closes : e < d}
            prev_value == IF earlier = {} THEN None
                          ELSE Some(closes[CHOOSE e \in earlier : \A f \in earlier : f <= e])
            value == closes[d]
        IN  [value |-> value,
             change |-> IF prev_value # None /\ Get(prev_value) # 0
                        THEN PctChange(value, Get(prev_value))
                        ELSE 0]]

dates == SortedSeq(DOMAIN walcl \cap DOMAIN swpt)
swpt_keys == SortedSeq(DOMAIN swpt)
swpt_values == LET keys == swpt_keys IN [k \in 1..Len(keys) |-> swpt[keys[k]]]

\* swpt_values[max(0, i-52):i+1] as the half-open range of 0-based positions.
WindowFrom(idx) == IF idx - ZSCORE_WINDOW > 0 THEN idx - ZSCORE_WINDOW ELSE 0
WindowTo(idx) == idx + 1
SwptRecent(idx) == Slice(swpt_values, WindowFrom(idx), WindowTo(idx))

\* treast.get(date, 0)
TreastUsed(date) == DictGet(treast, date, 0)

\* usdjpy_data.get(date) or {}
UsdjpyEntry(date) ==
    IF date \in DOMAIN usdjpy_weekly THEN Some(usdjpy_weekly[date]) ELSE None

(***************************************************************************)
(* zscore >= threshold for zscore = (x - mean) / stdev of the window when  *)
(* the window has ZSCORE_MIN_SAMPLES values and stdev > 0, and 0 if not.   *)
(* With n values of sum S and sum of squares Q, D = n*x - S and            *)
(* V = n*Q - S*S: stdev > 0 iff V > 0, and for threshold t tenths          *)
(* zscore >= t/10 iff D >= 0 and 100*(n-1)*D*D >= t*t*n*V.  The z-score    *)
(* does not depend on the unit; the series tried are whole billions, and   *)
(* the sums are taken in billions.                                         *)
(***************************************************************************)
\* A faulty WeeklyZscoreAtLeast, to try the properties on: the z-score is
\* computed from any number of samples.
WeeklyZscoreAtLeastAnySample(swpt_recent, x, threshold) ==
    LET n == Len(swpt_recent)
        xs == [k \in 1..n |-> swpt_recent[k] \div 1000]
        S == SumSeq(xs)
        Q == SumSeq([k \in 1..n |-> xs[k] * xs[k]])
        D == n * (x \div 1000) - S
        V == n * Q - S * S
    IN  IF V > 0
        THEN D >= 0 /\ 100 * (n - 1) * D * D >= threshold * threshold * n * V
        ELSE 0 >= threshold

WeeklyZscoreAtLeast(swpt_recent, x, threshold) ==
    LET n == Len(swpt_recent)
        xs == [k \in 1..n |-> swpt_recent[k] \div 1000]
        S == SumSeq(xs)
        Q == SumSeq([k \in 1..n |-> xs[k] * xs[k]])
        D == n * (x \div 1000) - S
        V == n * Q - S * S
    IN  IF n >= ZSCORE_MIN_SAMPLES /\ V > 0
        THEN D >= 0 /\ 100 * (n - 1) * D * D >= threshold * threshold * n * V
        ELSE 0 >= threshold

\* A faulty WeeklySwapsInc, to try the properties on: the second sub-condition adds to the score again.
WeeklySwapsIncTwice(cond_a, cond_b) ==
    (IF cond_a THEN 1 ELSE 0) + (IF cond_b THEN 1 ELSE 0)

\* What the two swaps sub-conditions add to the score: the second adds only
\* if not conditions["swaps"].
WeeklySwapsInc(cond_a, cond_b) ==
    (IF cond_a THEN 1 ELSE 0) + (IF cond_b /\ ~cond_a THEN 1 ELSE 0)

(***************************************************************************)
(* One pass of the loop body for dates[idx + 1] (idx from 0): the changes  *)
(* against the previous scan date, the z-score, the four conditions, the   *)
(* score and the signal.  The prior values of the series tried are         *)
(* positive where they are not zero, so a comparison of a percentage       *)
(* change with a threshold is made on the products, without dividing.      *)
(***************************************************************************)
WeeklyEntry(idx) ==
    LET date == dates[idx + 1]
        prev_date == IF idx > 0 THEN Some(dates[idx]) ELSE None
        has_prev == prev_date # None
        pd == IF has_prev THEN Get(prev_date) ELSE date
        \* walcl_change is not None and walcl_change > threshold
        walcl_has_change == has_prev /\ pd \in DOMAIN walcl /\ walcl[pd] # 0
        total_assets == /\ walcl_has_change
                        /\ (walcl[date] - walcl[pd]) * 1000
                               > TOTAL_ASSETS_INCREASE_THRESHOLD * walcl[pd]
        \* treast_change is not None and treast_change < threshold
        treast_has_change == has_prev /\ DictGet(treast, pd, 0) # 0
        treasury == /\ treast_has_change
                    /\ (TreastUsed(date) - DictGet(treast, pd, 0)) * 1000
                           < TREASURY_HOLDINGS_INCREASE_THRESHOLD * DictGet(treast, pd, 1)
        \* swaps
        swpt_has_change == has_prev /\ pd \in DOMAIN swpt /\ swpt[pd] # 0
        swpt_change_abs == IF has_prev /\ pd \in DOMAIN swpt
                           THEN Some(swpt[date] - swpt[pd]) ELSE None
        swpt_value_b == MillionsToBillions(swpt[date])
        swpt_change_abs_b == IF swpt_change_abs # None /\ Get(swpt_change_abs) # 0
                             THEN MillionsToBillions(Get(swpt_change_abs)) ELSE 0
        cond_a == /\ swpt_value_b >= SWAPS_MINIMUM_VALUE
                  /\ swpt_has_change
                  /\ swpt[date] # swpt[pd]
                  /\ (swpt[date] - swpt[pd]) * 1000 >= SWAPS_SURGE_THRESHOLD_PCT * swpt[pd]
                  /\ swpt_change_abs_b >= SWAPS_SURGE_THRESHOLD_ABS
        cond_b == WeeklyZscoreAtLeast(SwptRecent(idx), swpt[date],
                                      SWAPS_SURGE_ZSCORE_THRESHOLD)
        \* usdjpy
        has_entry == UsdjpyEntry(date) # None
        usdjpy_val == usdjpy_weekly[date].value
        usdjpy_chg == usdjpy_weekly[date].change
        usdjpy == /\ has_entry
                  /\ \/ UsdjpyWeakening(usdjpy_chg)
                     \/ UsdjpyIntervention(usdjpy_val, Abs(usdjpy_chg))
        score == (IF total_assets THEN 1 ELSE 0) + (IF treasury THEN 1 ELSE 0)
                 + WeeklySwapsInc(cond_a, cond_b) + (IF usdjpy THEN 1 ELSE 0)
    IN  [date |-> date,
         signal |-> SignalOfScore(score),
         score |-> score,
         conditions |-> [total_assets |-> total_assets, treasury |-> treasury,
                         swaps |-> cond_a \/ cond_b, usdjpy |-> usdjpy]]

(***************************************************************************)
(* The observations tried.  value in millions (FRED) or yen (USDJPY);      *)
(* change, zscore in tenths; change_abs in millions.  Under config.py's    *)
(* own score thresholds the full set of each observation is classified    *)
(* with every combination of the coarse sets of the others (none, one that *)
(* meets its condition, one that does not); under any other pair of score  *)
(* thresholds, which changes nothing but the signal of a score, a coarser  *)
(* set on which every score 0..4 arises.                                   *)
(***************************************************************************)
Optional(S) == {None} \cup {Some(v) : v \in S}

DefaultThresholds ==
    /\ HIDDEN_QE_SIGNAL_ON = DEFAULT_SIGNAL_ON
    /\ HIDDEN_QE_SIGNAL_WATCH = DEFAULT_SIGNAL_WATCH

\* config.py's own values, with the API key and the Gist URL set in the environment.
IsDefaultConfig ==
    /\ DefaultThresholds
    /\ SCORE_CALC_MODE = "momentum"
    /\ FRED_API_KEY
    /\ ETF_GIST_URL

WalclObs ==
    [value : {6600000}, change : IF IsDefaultConfig THEN Optional({0, 1, 2}) ELSE {Some(1), Some(2)}]
TreastObs ==
    [value : {4200000}, change : IF IsDefaultConfig THEN Optional({0, 4, 5, 6}) ELSE {Some(4), Some(5)}]
SwptObs ==
    IF IsDefaultConfig
    THEN [value : {999, 1000, 6000},
          change : Optional({99, 100, 120}),
          change_abs : Optional({700, 5000, 6000}),
          zscore : Optional({10, 20})]
    ELSE [value : {6000}, change : {Some(120)}, change_abs : {Some(700)},
          zscore : {Some(10), Some(20)}]
UsdjpyObs ==
    IF IsDefaultConfig
    THEN [value : {148, 150, 152}, change : Optional({-20, -10, 3, 10, 12})]
    ELSE [value : {148}, change : {Some(3), Some(12)}]

WalclCoarse == {None, Some([value |-> 6600000, change |-> Some(1)]),
                Some([value |-> 6600000, change |-> Some(2)])}
TreastCoarse == {None, Some([value |-> 4200000, change |-> Some(4)]),
                 Some([value |-> 4200000, change |-> Some(5)])}
SwptCoarse == {None,
               Some([value |-> 6000, change |-> Some(120), change_abs |-> Some(700),
                     zscore |-> Some(10)]),
               Some([value |-> 6000, change |-> Some(120), change_abs |-> Some(6000),
                     zscore |-> Some(20)])}
UsdjpyCoarse == {None, Some([value |-> 148, change |-> Some(3)]),
                 Some([value |-> 148, change |-> Some(12)])}

\* The argument tuples <<walcl, swpt, treast, usdjpy>> the classifiers are called on.
ClassifierInputs ==
    IF IsDefaultConfig
    THEN (WalclCoarse \X Optional(SwptObs) \X TreastCoarse \X UsdjpyCoarse)
         \cup (WalclCoarse \X SwptCoarse \X TreastCoarse \X Optional(UsdjpyObs))
         \cup (Optional(WalclObs) \X SwptCoarse \X Optional(TreastObs) \X UsdjpyCoarse)
    ELSE {Some(w) : w \in WalclObs} \X {Some(x) : x \in SwptObs}
         \X {Some(t) : t \in TreastObs} \X {Some(u) : u \in UsdjpyObs}

Init ==
    /\ HIDDEN_QE_SIGNAL_ON \in (0 - 1)..MaxThreshold
    /\ HIDDEN_QE_SIGNAL_WATCH \in (0 - 1)..MaxThreshold
    /\ SCORE_CALC_MODE \in {"momentum", "conservative", "aggressive"}
    /\ FRED_API_KEY \in BOOLEAN
    /\ ETF_GIST_URL \in BOOLEAN
    \* the configurations tried differ from IsDefaultConfig in one setting at most
    /\ Cardinality({k \in 1..4 :
           <<~DefaultThresholds, SCORE_CALC_MODE # "momentum", ~FRED_API_KEY,
             ~ETF_GIST_URL>>[k]}) <= 1
    /\ pc = "idle"
    /\ walcl_data = None
    /\ swpt_data = None
    /\ treast_data = None
    /\ usdjpy_data = None
    /\ hidden_qe = None
    /\ result = None
    /\ walcl = EmptySeries
    /\ swpt = EmptySeries
    /\ treast = EmptySeries
    /\ usdjpy_weekly = EmptySeries
    /\ i = 0
    /\ prev_signal = "OFF"
    /\ weekly_signals = <<>>
    /\ on_transitions = <<>>
    /\ score_mode_arg = None
    /\ results = None
    /\ response = None
    /\ hist_results = <<>>
    /\ hist_i = 0
    /\ hist_prev_signal = "OFF"
    /\ transitions = <<>>
    /\ watch_i = 0
    /\ watch_prev_signal = "OFF"
    /\ watch_to_on = <<>>
    /\ etf_cache = EmptyCache
    /\ clock = 0
    /\ rq = [r \in Requests |-> IdleRequest]
    /\ calls = 0
    /\ overlapped = FALSE

\* One call of calculate_hidden_qe_signal on four optional observations.
CalculateHiddenQeSignal ==
    /\ pc = "idle"
    /\ \E args \in ClassifierInputs :
          LET w == args[1]
              s == args[2]
              t == args[3]
              u == args[4]
          IN
          /\ walcl_data' = w
          /\ swpt_data' = s
          /\ treast_data' = t
          /\ usdjpy_data' = u
          /\ hidden_qe' = Some(calculate_hidden_qe_signal(w, s, t, u))
    /\ pc' = "live"
    /\ UNCHANGED <<config_vars, serve_vars, scan_vars, result, weekly_vars, data_vars>>

\* One call of evaluate_hidden_qe_conditions on four optional rows.
EvaluateHiddenQeConditions ==
    /\ pc = "idle"
    /\ \E args \in ClassifierInputs :
          LET w == args[1]
              s == args[2]
              t == args[3]
              u == args[4]
          IN
          /\ walcl_data' = w
          /\ swpt_data' = s
          /\ treast_data' = t
          /\ usdjpy_data' = u
          /\ result' = Some(evaluate_hidden_qe_conditions(w, s, t, u))
    /\ pc' = "evaluate"
    /\ UNCHANGED <<config_vars, serve_vars, scan_vars, hidden_qe, weekly_vars, data_vars>>

(***************************************************************************)
(* get_data (server.py): the market signals.  Liquidity, balance sheet and *)
(* TGA are in millions of dollars, RRP in billions; DXY, Fear & Greed, the *)
(* exchange net flow (BTC) and the ETF flow (millions) are whole numbers;  *)
(* the funding rate is in hundredths of a percent, the gold and BTC        *)
(* changes in tenths of a percent.                                         *)
(***************************************************************************)
LIQUIDITY_BULLISH_STRONG == 6000000
LIQUIDITY_BULLISH_WEAK == 5500000
LIQUIDITY_BEARISH_STRONG == 5000000
DXY_BEARISH_STRONG == 110
DXY_BEARISH_WEAK == 105
DXY_BULLISH_STRONG == 100
EXCHANGE_NET_FLOW_BULLISH_STRONG == 5000
EXCHANGE_NET_FLOW_BULLISH_WEAK == 0
EXCHANGE_NET_FLOW_BEARISH_STRONG == 0 - 5000
ETF_FLOW_BULLISH_STRONG == 500
ETF_FLOW_BULLISH_WEAK == 100
ETF_FLOW_BEARISH_WEAK == 0 - 100
ETF_FLOW_BEARISH_STRONG == 0 - 500
FUNDING_RATE_OVERHEAT == 10
FUNDING_RATE_COOLING == 0 - 10
FEAR_GREED_EXTREME_FEAR == 25
FEAR_GREED_FEAR == 40
FEAR_GREED_EXTREME_GREED == 75
FEAR_GREED_GREED == 60

\* A signal as it is initialised: neutral, weight 1, not available.
SigInit(name) ==
    [name |-> name, status |-> "neutral", weight |-> 1, available |-> FALSE, reason |-> ""]

Avail(sig, status, weight) ==
    [sig EXCEPT !.available = TRUE, !.status = status, !.weight = weight]

\* Python's truth of an optional number: there, and not 0.
Truthy(x) == x # None /\ Get(x) # 0

sig_liquidity(balance_sheet, rrp, tga) ==
    LET sig == SigInit("liquidity")
        complete == Truthy(balance_sheet) /\ rrp # None /\ Truthy(tga)
        liquidity == Get(balance_sheet) - (Get(rrp) * 1000) - Get(tga)
    IN  IF ~FRED_API_KEY THEN [sig EXCEPT !.reason = "fred_key_unset"]
        ELSE IF ~complete THEN [sig EXCEPT !.reason = "fred_fetch_failed"]
        ELSE IF liquidity # 0
        THEN IF liquidity > LIQUIDITY_BULLISH_STRONG THEN Avail(sig, "bullish", 2)
             ELSE IF liquidity > LIQUIDITY_BULLISH_WEAK THEN Avail(sig, "bullish", 1)
             ELSE IF liquidity < LIQUIDITY_BEARISH_STRONG THEN Avail(sig, "bearish", 2)
             ELSE Avail(sig, "neutral", 1)
        ELSE sig

sig_dxy(dxy) ==
    LET sig == SigInit("dxy")
    IN  IF dxy # None /\ Get(dxy).value # 0
        THEN LET v == Get(dxy).value
             IN  IF v > DXY_BEARISH_STRONG THEN Avail(sig, "bearish", 2)
                 ELSE IF v > DXY_BEARISH_WEAK THEN Avail(sig, "bearish", 1)
                 ELSE IF v < DXY_BULLISH_STRONG THEN Avail(sig, "bullish", 2)
                 ELSE Avail(sig, "neutral", 1)
        ELSE [sig EXCEPT !.reason = "yahoo_fetch_failed"]

sig_fg(fg) ==
    LET sig == SigInit("fear_greed")
    IN  IF Truthy(fg)
        THEN LET v == Get(fg)
             IN  IF v <= FEAR_GREED_EXTREME_FEAR THEN Avail(sig, "bullish", 2)
                 ELSE IF v <= FEAR_GREED_FEAR THEN Avail(sig, "bullish", 1)
                 ELSE IF v >= FEAR_GREED_EXTREME_GREED THEN Avail(sig, "bearish", 2)
                 ELSE IF v >= FEAR_GREED_GREED THEN Avail(sig, "bearish", 1)
                 ELSE Avail(sig, "neutral", 1)
        ELSE [sig EXCEPT !.reason = "api_fetch_failed"]

sig_flow(ex_flow) ==
    LET sig == SigInit("exchange_flow")
    IN  IF ex_flow # None /\ Get(ex_flow).net_flow # None
        THEN LET flow == Get(Get(ex_flow).net_flow)
             IN  IF flow > EXCHANGE_NET_FLOW_BULLISH_STRONG THEN Avail(sig, "bullish", 2)
                 ELSE IF flow > EXCHANGE_NET_FLOW_BULLISH_WEAK THEN Avail(sig, "bullish", 1)
                 ELSE IF flow < EXCHANGE_NET_FLOW_BEARISH_STRONG THEN Avail(sig, "bearish", 2)
                 ELSE Avail(sig, "bearish", 1)
        ELSE [sig EXCEPT !.reason = "coinglass_fetch_failed"]

sig_fr(fr) ==
    LET sig == SigInit("funding_rate")
    IN  IF fr # None
        THEN IF Get(fr) > FUNDING_RATE_OVERHEAT THEN Avail(sig, "bearish", 1)
             ELSE IF Get(fr) < FUNDING_RATE_COOLING THEN Avail(sig, "bullish", 1)
             ELSE Avail(sig, "neutral", 1)
        ELSE [sig EXCEPT !.reason = "okx_fetch_failed"]

\* macro_yh is None (the task raised) or a dict, whose gold_change is None here
\* when the key is not in it; btc is the dict get_btc_price returned.
sig_rotation(macro_yh, btc) ==
    LET sig == SigInit("gold_btc")
        gold_change == IF macro_yh # None THEN Get(macro_yh).gold_change ELSE None
        btc_change == IF btc # None THEN Get(btc).change ELSE None
    IN  IF gold_change # None /\ btc_change # None
        THEN LET g == Get(gold_change)
                 b == Get(btc_change)
             IN  IF g < 0 - 10 /\ b > 10 THEN Avail(sig, "bullish", 2)
                 ELSE IF g < 0 /\ b > 0 THEN Avail(sig, "bullish", 1)
                 ELSE IF g > 10 /\ b < 0 - 10 THEN Avail(sig, "bearish", 2)
                 ELSE IF g > 0 /\ b < 0 THEN Avail(sig, "bearish", 1)
                 ELSE Avail(sig, "neutral", 1)
        ELSE [sig EXCEPT !.reason = "gold_btc_fetch_failed"]

sig_etf(etf_flow) ==
    LET sig == SigInit("etf_flow")
    IN  IF ~ETF_GIST_URL THEN [sig EXCEPT !.reason = "etf_gist_url_unset"]
        ELSE IF etf_flow # None
        THEN IF Get(etf_flow).status = "fetching"
             THEN [sig EXCEPT !.status = "loading", !.reason = "fetching"]
             ELSE IF Get(etf_flow).total_daily_flow # None
             THEN LET flow == Get(Get(etf_flow).total_daily_flow)
                  IN  IF flow >= ETF_FLOW_BULLISH_STRONG THEN Avail(sig, "bullish", 2)
                      ELSE IF flow >= ETF_FLOW_BULLISH_WEAK THEN Avail(sig, "bullish", 1)
                      ELSE IF flow <= ETF_FLOW_BEARISH_STRONG THEN Avail(sig, "bearish", 2)
                      ELSE IF flow <= ETF_FLOW_BEARISH_WEAK THEN Avail(sig, "bearish", 1)
                      ELSE Avail(sig, "neutral", 1)
             ELSE [sig EXCEPT !.reason = "etf_fetch_failed"]
        ELSE [sig EXCEPT !.reason = "etf_fetch_failed"]

sig_hidden_qe(walcl_weekly, swpt_d, usdjpy_d, hidden) ==
    LET sig == SigInit("hidden_qe")
    IN  IF ~FRED_API_KEY THEN [sig EXCEPT !.reason = "fred_key_unset"]
        ELSE IF walcl_weekly = None \/ swpt_d = None \/ usdjpy_d = None
        THEN [sig EXCEPT !.reason = "fred_usdjpy_fetch_failed"]
        ELSE IF hidden.signal = "ON" THEN Avail(sig, "bullish", 2)
        ELSE IF hidden.signal = "WATCH" THEN Avail(sig, "bullish", 1)
        ELSE Avail(sig, "neutral", 1)

(***************************************************************************)
(* get_data: the composite score.  A quotient the program rounds is kept   *)
(* as numerator and denominator; round() is Python's, half to even (the    *)
(* halves that arise, k/8 and k/16 of 100, are exact floats).              *)
(***************************************************************************)
RoundHalfEven(n, d) ==
    LET q == n \div d
        r == n - q * d
    IN  IF 2 * r < d THEN q
        ELSE IF 2 * r > d THEN q + 1
        ELSE IF q % 2 = 0 THEN q ELSE q + 1

\* A faulty AvailableSignals, to try the properties on: nothing is left out.
AvailableSignalsAll(signals) == signals

AvailableSignals(signals) == SelectSeq(signals, LAMBDA sig : sig.available)

UnavailableSignals(signals) == SelectSeq(signals, LAMBDA sig : ~sig.available)

RECURSIVE SumWeights(_, _)
SumWeights(sigs, status) ==
    IF sigs = <<>>
    THEN 0
    ELSE (IF Head(sigs).status = status THEN Head(sigs).weight ELSE 0)
             + SumWeights(Tail(sigs), status)

\* A faulty EffectiveMode, to try the properties on: the request's parameter is ignored.
EffectiveModeConfigOnly(arg) ==
    IF SCORE_CALC_MODE \notin {"momentum", "conservative"} THEN "momentum" ELSE SCORE_CALC_MODE

\* request.args.get('score_mode', config.SCORE_CALC_MODE), and the fallback.
EffectiveMode(arg) ==
    LET score_mode == IF arg # None THEN Get(arg) ELSE SCORE_CALC_MODE
    IN  IF score_mode \notin {"momentum", "conservative"} THEN "momentum" ELSE score_mode

\* A faulty ScoreFraction, to try the properties on: the neutral weight is
\* in the denominator in either mode.
ScoreFractionDiluted(score_mode, bull_w, bear_w, neut_w) ==
    IF bull_w + bear_w + neut_w > 0
    THEN [num |-> bull_w - bear_w, den |-> bull_w + bear_w + neut_w]
    ELSE [num |-> 0, den |-> 1]

\* A faulty ScoreFraction, to try the properties on: the bearish weight
\* alone is the denominator.
ScoreFractionOverBear(score_mode, bull_w, bear_w, neut_w) ==
    [num |-> bull_w - bear_w, den |-> IF bear_w > 1 THEN bear_w ELSE 1]

\* score / 100 as numerator and denominator.
ScoreFraction(score_mode, bull_w, bear_w, neut_w) ==
    LET active_w == bull_w + bear_w
        total_w == bull_w + bear_w + neut_w
    IN  IF score_mode = "momentum"
        THEN [num |-> bull_w - bear_w, den |-> IF active_w > 1 THEN active_w ELSE 1]
        ELSE IF total_w > 0
        THEN [num |-> bull_w - bear_w, den |-> total_w]
        ELSE [num |-> 0, den |-> 1]

\* A faulty Confidence, to try the properties on: the share of the bullish weight.
ConfidenceBullOnly(bull_w, bear_w, neut_w) ==
    IF bull_w + bear_w + neut_w > 0
    THEN [num |-> bull_w, den |-> bull_w + bear_w + neut_w]
    ELSE [num |-> 0, den |-> 1]

\* confidence / 100 as numerator and denominator.
Confidence(bull_w, bear_w, neut_w) ==
    IF bull_w + bear_w + neut_w > 0
    THEN [num |-> bull_w + bear_w, den |-> bull_w + bear_w + neut_w]
    ELSE [num |-> 0, den |-> 1]

\* The text chosen by the score, before the coverage warning.
SummaryText(score) ==
    IF score.num * 100 > 30 * score.den THEN "bullish"
    ELSE IF score.num * 100 > 10 * score.den THEN "mildly_bullish"
    ELSE IF score.num * 100 < (0 - 30) * score.den THEN "bearish"
    ELSE IF score.num * 100 < (0 - 10) * score.den THEN "mildly_bearish"
    ELSE "no_direction"

\* A faulty LowCoverage, to try the properties on: the warning starts below 75.
LowCoverageBelow75(available_count, total_signal_count) ==
    total_signal_count = 0 \/ available_count * 100 < 75 * total_signal_count

\* coverage < 80
LowCoverage(available_count, total_signal_count) ==
    total_signal_count = 0 \/ available_count * 100 < 80 * total_signal_count

\* The formula string "(bull_w - bear_w) / den" as the three numbers in it.
Formula(score_mode, bull_w, bear_w, neut_w) ==
    <<bull_w, bear_w,
      IF score_mode = "momentum" THEN bull_w + bear_w ELSE bull_w + bear_w + neut_w>>

\* The response of get_data for the signals built, from the score section on.
ResponseData(signals, arg) ==
    LET available_signals == AvailableSignals(signals)
        unavailable_signals == UnavailableSignals(signals)
        total_signal_count == Len(signals)
        available_count == Len(available_signals)
        bull_w == SumWeights(available_signals, "bullish")
        bear_w == SumWeights(available_signals, "bearish")
        neut_w == SumWeights(available_signals, "neutral")
        confidence == Confidence(bull_w, bear_w, neut_w)
        score_mode == EffectiveMode(arg)
        score == ScoreFraction(score_mode, bull_w, bear_w, neut_w)
    IN  [score |-> RoundHalfEven(score.num * 100, score.den),
         confidence |-> RoundHalfEven(confidence.num * 100, confidence.den),
         coverage |-> IF total_signal_count > 0
                      THEN RoundHalfEven(available_count * 100, total_signal_count)
                      ELSE 0,
         scoreDetails |-> [mode |-> score_mode,
                           bullishWeight |-> bull_w,
                           bearishWeight |-> bear_w,
                           neutralWeight |-> neut_w,
                           availableCount |-> available_count,
                           totalCount |-> total_signal_count,
                           formula |-> Formula(score_mode, bull_w, bear_w, neut_w)],
         unavailableSignals |-> [k \in 1..Len(unavailable_signals) |->
                                    [name |-> unavailable_signals[k].name,
                                     reason |-> unavailable_signals[k].reason]],
         summary |-> [warning |-> LowCoverage(available_count, total_signal_count),
                      text |-> SummaryText(score)],
         signals |-> signals,
         is_fallback |-> FALSE,
         http_status |-> 200]

\* The response of the except branch.
FallbackResponse ==
    [score |-> 0, signals |-> <<>>, is_fallback |-> TRUE, http_status |-> 500]

(***************************************************************************)
(* The responses tried.  FRED observations and USDJPY closes on which the  *)
(* percentage change is a whole number of tenths.                          *)
(***************************************************************************)
SeqsUpTo2(V) == {<<>>} \cup {<<a>> : a \in V} \cup {<<a, b>> : a, b \in V}
FredValidObs == SeqsUpTo2({0, 1000, 2000})

UsdjpyCloses ==
    {<<>>} \cup {<<c>> : c \in {152, 160, 168}} \cup {<<160, c>> : c \in {152, 160, 168}}

(***************************************************************************)
(* What fetch_all_data's tasks return, by the signal it feeds:             *)
(*   1 <<balance_sheet, rrp, tga>>   2 dxy          3 fg      4 ex_flow    *)
(*   5 fr      6 <<macro_yh, btc change>>   7 etf_flow                     *)
(*   8 <<WALCL observations, TREAST observations, USDJPY closes, swpt>>    *)
(* A task that raised counts as None (get_data, the unpacking).            *)
(* data_provider.py has no get_fred_data_with_stats; what it returns for   *)
(* SWPT is an input here, None or an observation with the fields           *)
(* calculate_hidden_qe_signal reads.                                       *)
(***************************************************************************)
SLOTS == 1..8

SwptStats(change_abs) ==
    Some([value |-> 6000, change |-> Some(120), change_abs |-> Some(change_abs),
          zscore |-> Some(10)])

EtfFlow(status, flow) == Some([status |-> status, total_daily_flow |-> flow])

\* Every task failed.
SlotNone ==
    <<(<<None, None, None>>), None, None, None, None, (<<None, None>>), None,
      (<<(<<>>), (<<>>), (<<>>), None>>)>>

\* Every signal available: liquidity bullish x2, DXY bearish, exchange flow
\* bullish, the other five neutral.
SlotX ==
    <<(<<Some(7000000), Some(0), Some(400000)>>), Some([value |-> 107]), Some(50),
      Some([net_flow |-> Some(1)]), Some(0),
      (<<Some([gold_change |-> Some(0)]), Some(0)>>), EtfFlow("ok", Some(0)),
      (<<(<<1000, 1000>>), (<<2000, 1000>>), (<<160, 160>>), SwptStats(700)>>)>>

\* Every signal that can be neutral is: liquidity, DXY; no exchange flow.
SlotN ==
    [SlotX EXCEPT ![1] = <<Some(7000000), Some(0), Some(1800000)>>,
                  ![2] = Some([value |-> 102]),
                  ![4] = None]

SlotFull(k) ==
    CASE k = 1 -> {<<b, r, t>> : b \in {None, Some(0), Some(7000000)},
                                 r \in {None, Some(0), Some(500)},
                                 t \in {None, Some(400000), Some(1400000), Some(1800000),
                                        Some(7000000)}}
      [] k = 2 -> {None} \cup {Some([value |-> v]) : v \in {0, 99, 100, 105, 106, 110, 111}}
      [] k = 3 -> Optional({0, 25, 26, 40, 41, 59, 60, 75})
      [] k = 4 -> {None, Some([net_flow |-> None])}
                  \cup {Some([net_flow |-> Some(f)]) : f \in {0 - 5001, 0 - 5000, 0, 1, 5000, 5001}}
      [] k = 5 -> Optional({0 - 11, 0 - 10, 0, 10, 11})
      [] k = 6 -> {<<None, Some(11)>>, <<Some([gold_change |-> None]), Some(11)>>,
                   <<Some([gold_change |-> Some(0 - 11)]), None>>}
                  \cup {<<Some([gold_change |-> Some(g)]), Some(b)>> :
                           g \in {0 - 11, 0 - 10, 0, 10, 11}, b \in {0 - 11, 0, 1, 11}}
      [] k = 7 -> {None, EtfFlow("ok", None), EtfFlow("fetching", Some(250))}
                  \cup {EtfFlow("ok", Some(f)) :
                           f \in {0 - 500, 0 - 499, 0 - 100, 0 - 99, 99, 100, 499, 500}}
      [] k = 8 -> {<<wo, (<<1000, 1000>>), (<<160, 168>>), SwptStats(6000)>> :
                      wo \in FredValidObs}
                  \cup {<<(<<2000, 1000>>), to, (<<160, 168>>), SwptStats(6000)>> :
                           to \in FredValidObs}
                  \cup {<<(<<2000, 1000>>), (<<1000, 1000>>), c, sw>> :
                           c \in UsdjpyCloses, sw \in {None, SwptStats(700), SwptStats(6000)}}

\* The results tried under the score thresholds of config.py: every subset
\* of the tasks failing, against SlotX and against SlotN; and every result
\* of one task with the others all as in SlotX or all failed.
ResultVectors ==
    IF DefaultThresholds
    THEN {[k \in SLOTS |-> IF k \in F THEN SlotNone[k] ELSE SlotX[k]] : F \in SUBSET SLOTS}
         \cup {[k \in SLOTS |-> IF k \in F THEN SlotNone[k] ELSE SlotN[k]] : F \in SUBSET SLOTS}
         \cup UNION {{[base EXCEPT ![k] = v] : v \in SlotFull(k), base \in {SlotX, SlotNone}} :
                        k \in SLOTS}
    ELSE {SlotNone, SlotX,
          [SlotX EXCEPT ![8] = <<(<<2000, 1000>>), (<<1000, 1000>>), (<<160, 168>>),
                                 SwptStats(6000)>>]}

\* What get_btc_price returns, or None if it raised; {} is the dict without a price.
BtcResults ==
    {None, Some([usd |-> None]), Some([usd |-> Some(0)]), Some([usd |-> Some(60000)])}

ScoreModeArgs ==
    IF DefaultThresholds
    THEN Optional({"momentum", "conservative", "aggressive", ""})
    ELSE {None}

(***************************************************************************)
(* get_data: the results of fetch_all_data are unpacked; without a BTC     *)
(* price the handler raises and answers with the fallback; otherwise the   *)
(* eight signals are built, the hidden-QE one from                         *)
(* calculate_hidden_qe_signal, and the composite score is computed.        *)
(***************************************************************************)
GetData ==
    /\ pc = "idle"
    /\ \E v \in ResultVectors, btc_price \in BtcResults, arg \in ScoreModeArgs :
          LET w == get_fred_data_with_change(v[8][1])
              t == get_fred_data_with_change(v[8][2])
              u == get_usdjpy(v[8][3])
              sw == v[8][4]
              btc == IF btc_price = None THEN None
                     ELSE Some([usd |-> Get(btc_price).usd, change |-> v[6][2]])
              hidden == calculate_hidden_qe_signal(w, sw, t, u)
              signals == <<sig_liquidity(v[1][1], v[1][2], v[1][3]),
                           sig_dxy(v[2]), sig_fg(v[3]), sig_flow(v[4]), sig_fr(v[5]),
                           sig_rotation(v[6][1], btc), sig_etf(v[7]),
                           sig_hidden_qe(w, sw, u, hidden)>>
          IN  \* a request without a BTC price is tried against two result vectors
              /\ Truthy(IF btc = None THEN None ELSE Get(btc).usd) \/ v \in {SlotX, SlotNone}
              /\ Truthy(IF btc = None THEN None ELSE Get(btc).usd) \/ arg = None
              /\ score_mode_arg' = arg
              /\ results' = Some([balance_sheet |-> v[1][1], rrp |-> v[1][2], tga |-> v[1][3],
                                  dxy |-> v[2], fg |-> v[3], ex_flow |-> v[4], fr |-> v[5],
                                  macro_yh |-> v[6][1], btc |-> btc, etf_flow |-> v[7]])
              /\ IF Truthy(IF btc = None THEN None ELSE Get(btc).usd)
                 THEN /\ walcl_data' = w
                      /\ swpt_data' = sw
                      /\ treast_data' = t
                      /\ usdjpy_data' = u
                      /\ hidden_qe' = Some(hidden)
                      /\ response' = Some(ResponseData(signals, arg))
                      /\ pc' = "data"
                 ELSE \* DataProviderError, before the hidden-QE part is reached
                      /\ UNCHANGED live_vars
                      /\ response' = Some(FallbackResponse)
                      /\ pc' = "data_failed"
              \* get_etf_flow, one of fetch_all_data's tasks, keeps what it fetched
              /\ etf_cache' = IF ETF_GIST_URL /\ HasFlow(v[7])
                               THEN [data |-> v[7], timestamp |-> Some(clock)]
                               ELSE etf_cache
    /\ UNCHANGED <<config_vars, scan_vars, result, weekly_vars, clock, rq, calls, overlapped>>

(***************************************************************************)
(* The series tried: the base value on every date but the last two, and on *)
(* each of the last two dates one of the tail values or no observation; or *)
(* no observation at all (a failed request).                               *)
(***************************************************************************)
BaseDates == 1..(NDates - 2)
TailDates == {NDates - 1, NDates}

SeriesOf(base, tail) ==
    [d \in BaseDates \cup {e \in TailDates : tail[e] # None} |->
        IF d \in BaseDates THEN base ELSE Get(tail[d])]

SeriesSet(base, tail_values) ==
    {EmptySeries} \cup {SeriesOf(base, t) : t \in [TailDates -> Optional(tail_values)]}

Tails(before_last, last) == [d \in TailDates |-> IF d = NDates THEN last ELSE before_last]

FullSeries(base, before_last, last) ==
    [d \in 1..NDates |-> IF d = NDates THEN last
                         ELSE IF d = NDates - 1 THEN before_last ELSE base]

WalclSeries ==
    IF IsDefaultConfig
    THEN {EmptySeries, SeriesOf(1000, Tails(Some(2000), Some(2000))),
          SeriesOf(1000, Tails(None, Some(2000)))}
             \cup {SeriesOf(1000, Tails(Some(1000), x)) : x \in Optional({1000, 2000})}
    ELSE {FullSeries(1000, 1000, 2000)}
\* A rise on the last base date, too small for sub-condition (a) of swaps.
SpikeSeries == [d \in 1..NDates |-> IF d = NDates - 2 THEN 3000 ELSE 1000]

SwptSeries ==
    IF IsDefaultConfig
    THEN SeriesSet(1000, {1000, 6000}) \cup {SpikeSeries}
    ELSE {FullSeries(1000, 1000, 6000)}
TreastSeries ==
    IF IsDefaultConfig
    THEN {EmptySeries, SeriesOf(1000, Tails(None, Some(1000)))}
             \cup {SeriesOf(1000, Tails(Some(1000), x)) : x \in Optional({1000, 2000})}
    ELSE {FullSeries(1000, 1000, 1000)}
UsdjpyWeeklyCloses ==
    IF IsDefaultConfig
    THEN {EmptySeries, [d \in 1..(NDates - 1) |-> 160]}
             \cup {FullSeries(160, 160, c) : c \in {152, 160, 168}}
    ELSE {FullSeries(160, 160, c) : c \in {160, 168}}

\* The API key check, the fetches and the early returns of
\* get_arthur_scenario_history.
StartWeeklyScan ==
    /\ pc = "idle"
    /\ IF FRED_API_KEY
       THEN \E w \in WalclSeries, s \in SwptSeries, t \in TreastSeries,
               c \in UsdjpyWeeklyCloses :
               /\ walcl' = w
               /\ swpt' = s
               /\ treast' = t
               /\ usdjpy_weekly' = BuildUsdjpy(c)
               /\ pc' = IF DOMAIN w = {} \/ DOMAIN s = {} THEN "weekly_error" ELSE "weekly"
       ELSE /\ pc' = "weekly_error"
            /\ UNCHANGED <<walcl, swpt, treast, usdjpy_weekly>>
    /\ i' = 0
    /\ prev_signal' = "OFF"
    /\ weekly_signals' = <<>>
    /\ on_transitions' = <<>>
    /\ UNCHANGED <<config_vars, serve_vars, scan_vars, live_vars, data_vars>>

\* One pass of the loop over dates.
WeeklyStep ==
    /\ pc = "weekly"
    /\ i < Len(dates)
    /\ LET entry == WeeklyEntry(i)
       IN  /\ weekly_signals' = Append(weekly_signals, entry)
           /\ on_transitions' =
                 IF IsOnTransition(prev_signal, entry.signal)
                 THEN Append(on_transitions,
                             [date |-> entry.date, score |-> entry.score,
                              conditions |-> entry.conditions])
                 ELSE on_transitions
           /\ prev_signal' = entry.signal
    /\ i' = i + 1
    /\ UNCHANGED <<config_vars, serve_vars, scan_vars, pc, live_vars, walcl, swpt, treast,
                   usdjpy_weekly, data_vars>>

\* The loop is over: the response is returned.
WeeklyReturn ==
    /\ pc = "weekly"
    /\ i = Len(dates)
    /\ pc' = "weekly_done"
    /\ UNCHANGED <<config_vars, serve_vars, scan_vars, live_vars, weekly_vars, data_vars>>

(***************************************************************************)
(* analyze_hidden_qe_history: one result of evaluate_hidden_qe_conditions  *)
(* per date, then the loop over the results that collects the dates on     *)
(* which the signal turns ON.  The rows of a date are chosen by the score  *)
(* they are to give: the conditions met are the first `score` of total     *)
(* assets, treasury, swaps, USD/JPY.  A date is its index, from 0.         *)
(***************************************************************************)
MaxHistLen == 4

RowsOfScore(score) ==
    <<Some([value |-> 6600000, change |-> Some(IF score >= 1 THEN 2 ELSE 1)]),
      Some([value |-> 6000, change |-> Some(120), change_abs |-> Some(700),
            zscore |-> Some(IF score >= 3 THEN 20 ELSE 10)]),
      Some([value |-> 4200000, change |-> Some(IF score >= 2 THEN 4 ELSE 5)]),
      Some([value |-> 148, change |-> Some(IF score >= 4 THEN 12 ELSE 3)])>>

SeqsUpTo(V, n) == UNION {[1..m -> V] : m \in 0..n}

HistScores ==
    {<<1, 2, 3, 4, 4, 2, 4>>}
    \cup (IF DefaultThresholds THEN SeqsUpTo({0, 2, 4}, MaxHistLen) ELSE {<<4, 0>>})

StartHistoryAnalysis ==
    /\ pc = "idle"
    /\ IF FRED_API_KEY
       THEN \E scores \in HistScores :
               /\ hist_results' =
                     [k \in 1..Len(scores) |->
                         LET rows == RowsOfScore(scores[k])
                             r == evaluate_hidden_qe_conditions(rows[1], rows[2], rows[3],
                                                                rows[4])
                         IN  [date |-> k - 1, signal |-> r.signal, score |-> r.score,
                              conditions |-> r.conditions]]
               /\ pc' = "history"
       ELSE \* fetch_fred_series returns empty frames: return []
            /\ hist_results' = <<>>
            /\ pc' = "history_error"
    /\ hist_i' = 0
    /\ hist_prev_signal' = "OFF"
    /\ transitions' = <<>>
    /\ UNCHANGED <<watch_i, watch_prev_signal, watch_to_on>>
    /\ UNCHANGED <<config_vars, serve_vars, live_vars, weekly_vars, data_vars>>

\* One iteration of `for r in results`.
TransitionStep ==
    /\ pc = "history"
    /\ hist_i < Len(hist_results)
    /\ LET r == hist_results[hist_i + 1]
       IN  /\ transitions' = IF IsOnTransition(hist_prev_signal, r.signal)
                             THEN Append(transitions, r)
                             ELSE transitions
           /\ hist_prev_signal' = r.signal
    /\ hist_i' = hist_i + 1
    /\ UNCHANGED <<watch_i, watch_prev_signal, watch_to_on>>
    /\ UNCHANGED <<config_vars, serve_vars, pc, live_vars, weekly_vars, data_vars, hist_results>>

\* A faulty IsWatchToOn, to try the properties on: the signal before is not looked at.
IsWatchToOnAnyPrev(prev, signal) == signal = "ON"

\* if prev_signal == "WATCH" and r["signal"] == "ON"
IsWatchToOn(prev, signal) == prev = "WATCH" /\ signal = "ON"

\* One iteration of the second `for r in results`, which runs when the
\* first loop is over and starts from prev_signal = "OFF" again.
WatchToOnStep ==
    /\ pc = "history"
    /\ hist_i = Len(hist_results)
    /\ watch_i < Len(hist_results)
    /\ LET r == hist_results[watch_i + 1]
       IN  /\ watch_to_on' = IF IsWatchToOn(watch_prev_signal, r.signal)
                             THEN Append(watch_to_on, r)
                             ELSE watch_to_on
           /\ watch_prev_signal' = r.signal
    /\ watch_i' = watch_i + 1
    /\ UNCHANGED <<hist_results, hist_i, hist_prev_signal, transitions>>
    /\ UNCHANGED <<config_vars, serve_vars, pc, live_vars, weekly_vars, data_vars>>

Next ==
    \/ CalculateHiddenQeSignal
    \/ EvaluateHiddenQeConditions
    \/ GetData
    \/ StartWeeklyScan
    \/ WeeklyStep
    \/ WeeklyReturn
    \/ StartHistoryAnalysis
    \/ TransitionStep
    \/ WatchToOnStep

Spec == Init /\ [][Next]_vars

(***************************************************************************)
(* /api/data under load.  The server answers each request in a thread of   *)
(* its own (app.run), and each get_data runs fetch_all_data to completion; *)
(* of its tasks, get_etf_flow is followed step by step, an await or a      *)
(* statement at a time, because it reads and writes the module's           *)
(* _etf_cache.  The other tasks' results are the request's own inputs v.   *)
(***************************************************************************)
Payloads ==
    {[status |-> "ok", total_daily_flow |-> Some(0)],
     [status |-> "ok", total_daily_flow |-> Some(250)],
     [status |-> "ok", total_daily_flow |-> None]}

\* What the Gist answers: a payload, rate limiting, or a server error.
HttpResponses ==
    {[status |-> 200, json |-> Some(p)] : p \in Payloads}
    \cup {[status |-> 429, json |-> None], [status |-> 500, json |-> None]}

\* response.raise_for_status()
RaisesForStatus(status) == status >= 400

\* A faulty retry condition, to try the properties on: any error is retried.
RetriesAnyError(status) == status >= 400

\* `if response.status == 429`
Retries(status) == status = 429

\* The results of the other tasks that the requests are tried with.
ServeInputs == {SlotX, SlotN}

\* get_etf_flow's test of the cache at `now`.
CacheHit(cache, now) ==
    /\ cache.data # None
    /\ cache.timestamp # None
    /\ now - Get(cache.timestamp) < ETF_CACHE_DURATION

InService(r) == rq[r].pc \notin {"idle", "done"}

\* get_data is entered; get_etf_flow takes `now`, looks at the cache and at
\* the configured URL, and either returns or sends its request.
StartRequest(r) ==
    /\ rq[r].pc \in {"idle", "done"}
    /\ calls < MaxCalls
    /\ \E v \in ServeInputs :
          rq' = [rq EXCEPT ![r] =
                    [IdleRequest EXCEPT
                        !.pc = IF CacheHit(etf_cache, clock) \/ ~ETF_GIST_URL
                               THEN "score" ELSE "request",
                        !.v = Some(v),
                        !.now = clock,
                        !.seen = etf_cache,
                        !.etf_flow = IF CacheHit(etf_cache, clock)
                                     THEN etf_cache.data ELSE None]]
    /\ calls' = calls + 1
    /\ overlapped' = (overlapped \/ \E o \in Requests \ {r} : InService(o))
    /\ UNCHANGED <<other_vars, etf_cache, clock>>

\* _request_handler's first session.get.
HandlerRequest(r) ==
    /\ rq[r].pc = "request"
    /\ \E resp \in HttpResponses :
          rq' = [rq EXCEPT ![r].http_requests = 1,
                           ![r].first_status = resp.status,
                           ![r].last_status = resp.status,
                           ![r].pc = IF Retries(resp.status) THEN "sleep" ELSE "fetched",
                           ![r].raised = ~Retries(resp.status)
                                         /\ RaisesForStatus(resp.status),
                           ![r].data = IF RaisesForStatus(resp.status) THEN None
                                       ELSE resp.json]
    /\ UNCHANGED <<other_vars, etf_cache, clock, calls, overlapped>>

\* After asyncio.sleep(60), its second session.get; raise_for_status decides.
HandlerRetry(r) ==
    /\ rq[r].pc = "sleep"
    /\ \E resp \in HttpResponses :
          rq' = [rq EXCEPT ![r].http_requests = rq[r].http_requests + 1,
                           ![r].last_status = resp.status,
                           ![r].pc = "fetched",
                           ![r].raised = RaisesForStatus(resp.status),
                           ![r].data = IF RaisesForStatus(resp.status) THEN None
                                       ELSE resp.json]
    /\ UNCHANGED <<other_vars, etf_cache, clock, calls, overlapped>>

\* get_etf_flow after _request_handler: a DataProviderError is answered with
\* the cached payload, if any; a payload with a flow goes into the cache;
\* anything else returns None.
EtfFetched(r) ==
    /\ rq[r].pc = "fetched"
    /\ IF rq[r].raised
       THEN /\ rq' = [rq EXCEPT ![r].pc = "score", ![r].etf_flow = etf_cache.data]
            /\ UNCHANGED etf_cache
       ELSE IF HasFlow(rq[r].data)
       THEN /\ etf_cache' = [etf_cache EXCEPT !.data = rq[r].data]
            /\ rq' = [rq EXCEPT ![r].pc = "store"]
       ELSE /\ rq' = [rq EXCEPT ![r].pc = "score", ![r].etf_flow = None]
            /\ UNCHANGED etf_cache
    /\ UNCHANGED <<other_vars, clock, calls, overlapped>>

\* `_etf_cache["timestamp"] = now; return data`
EtfStoreTimestamp(r) ==
    /\ rq[r].pc = "store"
    /\ etf_cache' = [etf_cache EXCEPT !.timestamp = Some(rq[r].now)]
    /\ rq' = [rq EXCEPT ![r].pc = "score", ![r].etf_flow = rq[r].data]
    /\ UNCHANGED <<other_vars, clock, calls, overlapped>>

\* A faulty scorer input, to try the properties on: the cache is read again.
EtfFlowFromCache(r) == etf_cache.data

\* The etf_flow that get_data unpacks from its own results.
EtfFlowOf(r) == rq[r].etf_flow

\* The signals get_data builds from the results v and etf_flow.
ServeSignals(v, etf_flow) ==
    LET w == get_fred_data_with_change(v[8][1])
        t == get_fred_data_with_change(v[8][2])
        u == get_usdjpy(v[8][3])
        sw == v[8][4]
        btc == Some([usd |-> Some(60000), change |-> v[6][2]])
        hidden == calculate_hidden_qe_signal(w, sw, t, u)
    IN  <<sig_liquidity(v[1][1], v[1][2], v[1][3]),
          sig_dxy(v[2]), sig_fg(v[3]), sig_flow(v[4]), sig_fr(v[5]),
          sig_rotation(v[6][1], btc), sig_etf(etf_flow),
          sig_hidden_qe(w, sw, u, hidden)>>

\* What get_etf_flow returns to a request served alone: the cache is as the
\* request found it when it has its answer.
GetEtfFlowAlone(q) ==
    IF CacheHit(q.seen, q.now) THEN q.seen.data
    ELSE IF ~ETF_GIST_URL THEN None
    ELSE IF q.raised THEN q.seen.data
    ELSE IF HasFlow(q.data) THEN q.data
    ELSE None

\* The rest of get_data: the signals, the composite score and the response.
\* Of the request, its inputs and its results are kept on record.
Score(r) ==
    /\ rq[r].pc = "score"
    /\ rq' = [rq EXCEPT ![r] =
                 [IdleRequest EXCEPT
                     !.pc = "done",
                     !.v = rq[r].v,
                     !.etf_flow = rq[r].etf_flow,
                     !.alone = GetEtfFlowAlone(rq[r]),
                     !.response = Some(ResponseData(
                                     ServeSignals(Get(rq[r].v), EtfFlowOf(r)), None))]]
    /\ UNCHANGED <<other_vars, etf_cache, clock, calls, overlapped>>

\* Time passes.
Tick ==
    /\ clock < MaxClock * ClockStep
    /\ clock' = clock + ClockStep
    /\ UNCHANGED <<other_vars, etf_cache, rq, calls, overlapped>>

NextServe ==
    \/ \E r \in Requests : StartRequest(r)
    \/ \E r \in Requests : HandlerRequest(r)
    \/ \E r \in Requests : HandlerRetry(r)
    \/ \E r \in Requests : EtfFetched(r)
    \/ \E r \in Requests : EtfStoreTimestamp(r)
    \/ \E r \in Requests : Score(r)
    \/ Tick

InitServe ==
    /\ Init
    /\ DefaultThresholds
    /\ SCORE_CALC_MODE = "momentum"
    /\ FRED_API_KEY

SpecServe == InitServe /\ [][NextServe]_vars

(***************************************************************************)
(* Properties.                                                             *)
(***************************************************************************)
\* calculate_hidden_qe_signal has returned, called on its own or by get_data.
LiveDone == pc \in {"live", "data"}
EvalDone == pc = "evaluate"
Live == Get(hidden_qe)
Eval == Get(result)

\* An observation that is there and whose change is not null.
HasChange(data) == data # None /\ Get(data).change # None
ChangeOf(data) == Get(Get(data).change)
OrZero(x) == IF x = None THEN 0 ELSE Get(x)

SignalMatchesScore(signal, score) ==
    /\ signal \in {"ON", "WATCH", "OFF"}
    /\ signal = "ON" <=> score >= HIDDEN_QE_SIGNAL_ON
    /\ signal = "WATCH" <=>
           (score < HIDDEN_QE_SIGNAL_ON /\ score >= HIDDEN_QE_SIGNAL_WATCH)
    /\ signal = "OFF" <=>
           (score < HIDDEN_QE_SIGNAL_ON /\ score < HIDDEN_QE_SIGNAL_WATCH)
    /\ (HIDDEN_QE_SIGNAL_ON = 4 /\ HIDDEN_QE_SIGNAL_WATCH = 2) =>
           /\ score = 4 => signal = "ON"
           /\ score \in {2, 3} => signal = "WATCH"
           /\ score \in {0, 1} => signal = "OFF"

\* C1: in both classifiers the signal of a score in 0..4 is ON when the score
\* reaches the ON threshold, otherwise WATCH when it reaches the WATCH
\* threshold, otherwise OFF, and nothing else; under the thresholds (4, 2)
\* score 4 is ON, 2 and 3 are WATCH, 0 and 1 are OFF.
C1_SignalMapping ==
    /\ LiveDone => Live.score \in 0..4 /\ SignalMatchesScore(Live.signal, Live.score)
    /\ EvalDone => Eval.score \in 0..4 /\ SignalMatchesScore(Eval.signal, Eval.score)

MetCount(flags) == Cardinality({c \in CONDITIONS : flags[c]})

\* C2: in calculate_hidden_qe_signal, in evaluate_hidden_qe_conditions and
\* in every entry of the weekly loop, the score is the number of the four
\* conditions that are met, each adding at most 1 (a swaps condition met by
\* both sub-conditions adds 1), so the score is in 0..4.
C2_ScoreCountsMet ==
    /\ LiveDone =>
          /\ Live.score = MetCount([c \in CONDITIONS |-> Live.details[c].met])
          /\ Live.score \in 0..4
    /\ EvalDone =>
          /\ Eval.score = MetCount(Eval.conditions)
          /\ Eval.score \in 0..4
    /\ \A k \in 1..Len(weekly_signals) :
          /\ DOMAIN weekly_signals[k].conditions = CONDITIONS
          /\ weekly_signals[k].score = MetCount(weekly_signals[k].conditions)
          /\ weekly_signals[k].score \in 0..4

\* The weekly loop has met every condition on the last date, the swaps by the
\* weekly surge (1000 -> 6000) and by the z-score of the window at once.
C2_Witness ==
    /\ pc = "weekly_done"
    /\ Len(weekly_signals) = NDates
    /\ swpt[NDates] = 6000 /\ swpt[NDates - 1] = 1000
    /\ WeeklyZscoreAtLeast(swpt_values, swpt[NDates], SWAPS_SURGE_ZSCORE_THRESHOLD)
    /\ weekly_signals[NDates].score = 4
    /\ \A c \in CONDITIONS : weekly_signals[NDates].conditions[c]

C1_Witness ==
    /\ LiveDone
    /\ HIDDEN_QE_SIGNAL_ON = 4 /\ HIDDEN_QE_SIGNAL_WATCH = 2
    /\ Live.score = 3 /\ Live.signal = "WATCH"

SwapsASpec(value, change_pct, change_abs) ==
    /\ value * 10 >= SWAPS_MINIMUM_VALUE * 1000
    /\ change_pct >= SWAPS_SURGE_THRESHOLD_PCT
    /\ change_abs * 10 >= SWAPS_SURGE_THRESHOLD_ABS * 1000

SwapsMet == IF LiveDone THEN Live.details.swaps.met ELSE Eval.conditions.swaps

SwapsExample(change_abs) ==
    Some([value |-> 6000, change |-> Some(120), change_abs |-> Some(change_abs),
          zscore |-> Some(10)])

C4_WitnessNotMet == EvalDone /\ swpt_data = SwapsExample(700) /\ ~Eval.conditions.swaps

ZscoreReached(data) ==
    /\ data # None
    /\ Get(data).zscore # None
    /\ Get(Get(data).zscore) >= SWAPS_SURGE_ZSCORE_THRESHOLD

\* C5 as claimed: whenever a swaps observation is supplied and its zscore
\* reaches the threshold, the swaps condition is met.
C5_Original == (LiveDone \/ EvalDone) => (ZscoreReached(swpt_data) => SwapsMet)

\* C5 as amended: whenever a swaps observation with a non-null change_pct is
\* supplied and its zscore reaches the threshold, the swaps condition is met,
\* whatever value (also below min_value), change_pct and change_abs are.
C5_ZscoreUngated ==
    (LiveDone \/ EvalDone) =>
        ((ZscoreReached(swpt_data) /\ HasChange(swpt_data)) => SwapsMet)

C5_Witness ==
    /\ LiveDone
    /\ ZscoreReached(swpt_data) /\ HasChange(swpt_data)
    /\ Get(swpt_data).value = 999 /\ ChangeOf(swpt_data) = 99
    /\ Live.details.swaps.met
    /\ Live.details.swaps.met_reasons = {"B"}

UsdjpyMet == IF LiveDone THEN Live.details.usdjpy.met ELSE Eval.conditions.usdjpy

UsdjpyExample(value, change) == Some([value |-> value, change |-> Some(change)])

\* C6: for a USDJPY observation with a non-null change, met is the plain OR of
\* change >= weakening_threshold and (value >= high_level and |change| >=
\* high_volatility), whatever the direction; (148, +1.2) is met, (152, +0.3)
\* is not, (152, -2.0) is met.
C6_UsdjpyCondition ==
    (LiveDone \/ EvalDone) =>
        /\ HasChange(usdjpy_data) =>
              LET change == ChangeOf(usdjpy_data)
                  value == Get(usdjpy_data).value
              IN  UsdjpyMet <=>
                     \/ change >= USDJPY_WEAKENING_THRESHOLD
                     \/ /\ value >= USDJPY_HIGH_LEVEL
                        /\ \/ change >= USDJPY_HIGH_VOLATILITY
                           \/ 0 - change >= USDJPY_HIGH_VOLATILITY
        /\ usdjpy_data = UsdjpyExample(148, 12) => UsdjpyMet
        /\ usdjpy_data = UsdjpyExample(152, 3) => ~UsdjpyMet
        /\ usdjpy_data = UsdjpyExample(152, -20) => UsdjpyMet

C6_Witness ==
    /\ LiveDone
    /\ usdjpy_data = UsdjpyExample(152, -20)
    /\ Live.details.usdjpy.met
    /\ Live.details.usdjpy.status = "intervention_watch"

\* The statuses a condition carries when its data is there.
PresentStatuses ==
    [total_assets |-> {"increase", "flat_or_decrease"},
     treasury |-> {"inactive", "active"},
     swaps |-> {"surge", "normal"},
     usdjpy |-> {"yen_weakening", "intervention_watch", "yen_strengthening", "stable"}]

LiveInput(c) ==
    CASE c = "total_assets" -> walcl_data
      [] c = "treasury" -> treast_data
      [] c = "swaps" -> swpt_data
      [] c = "usdjpy" -> usdjpy_data

\* C7: in the live classifier a condition whose observation is missing or
\* whose change is null is not met, adds nothing to the score, and carries
\* the data-unavailable status, which no condition carries when its data is
\* there; the result always has all four condition entries.
C7_MissingObservation ==
    LiveDone =>
        /\ DOMAIN Live.details = CONDITIONS
        /\ \A c \in CONDITIONS :
              IF HasChange(LiveInput(c))
              THEN Live.details[c].status \in PresentStatuses[c]
              ELSE /\ ~Live.details[c].met
                   /\ Live.details[c].status = "data_fetch_failed"
                   /\ Live.details[c].status \notin UNION {PresentStatuses[d] : d \in CONDITIONS}
        /\ Live.score <= Cardinality({c \in CONDITIONS : HasChange(LiveInput(c))})

C7_Witness ==
    /\ LiveDone
    /\ walcl_data = None
    /\ swpt_data # None /\ ~HasChange(swpt_data) /\ ZscoreReached(swpt_data)
    /\ HasChange(treast_data) /\ ~Live.details.treasury.met
    /\ Live.details.swaps.status = "data_fetch_failed"
    /\ Live.details.treasury.status = "active"

\* C10: no classification result is produced under a configuration with
\* on_threshold < watch_threshold or a negative threshold.
C10_InvalidConfigRejected ==
    (hidden_qe # None \/ result # None \/ weekly_signals # <<>>) =>
        /\ HIDDEN_QE_SIGNAL_ON >= HIDDEN_QE_SIGNAL_WATCH
        /\ HIDDEN_QE_SIGNAL_ON >= 0
        /\ HIDDEN_QE_SIGNAL_WATCH >= 0

\* The scan date before dates[k], if there is one.
PrevDateOf(k) == IF k > 1 THEN Some(dates[k - 1]) ELSE None

Resolved(series, k) ==
    /\ dates[k] \in DOMAIN series
    /\ PrevDateOf(k) # None
    /\ Get(PrevDateOf(k)) \in DOMAIN series
    /\ series[Get(PrevDateOf(k))] # 0

\* C8: in the weekly scan, a metric whose observation on the scan date, or
\* whose prior value, cannot be resolved has its condition recorded as not
\* met for that date, and the scan goes on to the next date: every scan date
\* gets its entry.
C8_MissingNeverMet ==
    /\ pc = "weekly_done" => Len(weekly_signals) = Len(dates)
    /\ \A k \in 1..Len(weekly_signals) :
          LET e == weekly_signals[k]
          IN  /\ e.date = dates[k]
              /\ e.conditions.total_assets => Resolved(walcl, k)
              /\ e.conditions.treasury => Resolved(treast, k)
              /\ e.conditions.usdjpy => e.date \in DOMAIN usdjpy_weekly

NoValidPrior(data) ==
    /\ data # None
    /\ Get(data).prev_value \in {None, Some(0)}

\* C9: a percentage change is null when the prior value is null or zero, never
\* a number: in what get_fred_data_with_change returns, and in the first
\* entry of the weekly USDJPY history; and no condition is met on a change
\* computed without a valid prior value.
C9_NullChangeWithoutPrior ==
    /\ pc = "data" =>
          /\ NoValidPrior(walcl_data) =>
                Get(walcl_data).change = None /\ ~Live.details.total_assets.met
          /\ NoValidPrior(treast_data) =>
                Get(treast_data).change = None /\ ~Live.details.treasury.met
    /\ \A d \in DOMAIN usdjpy_weekly :
          (\A e \in DOMAIN usdjpy_weekly : d <= e) => usdjpy_weekly[d].change \notin Int

(***************************************************************************)
(* The composite score of get_data.                                        *)
(***************************************************************************)
DataDone == pc = "data"
DataFailed == pc = "data_failed"
Resp == Get(response)
STATUSES == {"bullish", "bearish", "neutral"}

\* The weight the available signals of one status carry, summed signal by signal.
WeightOf(sigs, status) ==
    SumSeq([k \in 1..Len(sigs) |->
               IF sigs[k].available /\ sigs[k].status = status THEN sigs[k].weight ELSE 0])

AvailableCount(sigs) == Cardinality({k \in 1..Len(sigs) : sigs[k].available})

\* C11: an unavailable signal is in none of the three weight sums: the sums
\* reported are those of the available signals alone, coverage is the share
\* of available signals in percent, and giving an unavailable signal any
\* other status or weight changes no weight sum, nor the score, the
\* confidence or the coverage.
C11_UnavailableExcluded ==
    DataDone =>
       LET sigs == Resp.signals
           d == Resp.scoreDetails
       IN  /\ d.bullishWeight = WeightOf(sigs, "bullish")
           /\ d.bearishWeight = WeightOf(sigs, "bearish")
           /\ d.neutralWeight = WeightOf(sigs, "neutral")
           /\ d.availableCount = AvailableCount(sigs)
           /\ d.totalCount = Len(sigs)
           /\ Resp.coverage = RoundHalfEven(AvailableCount(sigs) * 100, Len(sigs))
           /\ \A k \in 1..Len(sigs) :
                 ~sigs[k].available =>
                    \A st \in STATUSES, w \in {1, 2} :
                       LET other == ResponseData([sigs EXCEPT ![k].status = st,
                                                              ![k].weight = w],
                                                 score_mode_arg)
                       IN  /\ other.scoreDetails = d
                           /\ other.score = Resp.score
                           /\ other.confidence = Resp.confidence
                           /\ other.coverage = Resp.coverage

\* Three signals are unavailable, the others carry bullish, bearish and neutral weight.
C11_Witness ==
    /\ DataDone
    /\ AvailableCount(Resp.signals) = 5
    /\ Resp.scoreDetails.bullishWeight = 2
    /\ Resp.scoreDetails.bearishWeight = 1
    /\ Resp.scoreDetails.neutralWeight = 3
    /\ Resp.coverage = 62


Max(a, b) == IF a >= b THEN a ELSE b

\* C12: in momentum mode the score is (bull - bear) / max(bull + bear, 1) * 100,
\* so the weight of a neutral signal never changes it and a set whose
\* available signals are all neutral scores 0; in conservative mode it is
\* (bull - bear) / (bull + bear + neut) * 100, and 0 when that total is 0.
\* With bull 3, bear 1 and neut 5 the scores are 50 and 22 (22.2 rounded).
C12_ScoreByMode ==
    DataDone =>
       LET d == Resp.scoreDetails
           sigs == Resp.signals
           bull == d.bullishWeight
           bear == d.bearishWeight
           neut == d.neutralWeight
       IN  /\ d.mode = "momentum" =>
                /\ Resp.score = RoundHalfEven((bull - bear) * 100, Max(bull + bear, 1))
                /\ bull + bear = 0 => Resp.score = 0
                /\ \A k \in 1..Len(sigs), w \in {1, 2, 3} :
                      sigs[k].status = "neutral" =>
                         ResponseData([sigs EXCEPT ![k].weight = w], score_mode_arg).score
                            = Resp.score
           /\ d.mode # "momentum" =>
                Resp.score = IF bull + bear + neut > 0
                             THEN RoundHalfEven((bull - bear) * 100, bull + bear + neut)
                             ELSE 0
           /\ (bull = 3 /\ bear = 1 /\ neut = 5) =>
                Resp.score = IF d.mode = "momentum" THEN 50 ELSE 22

\* The example of the specification, in conservative mode.
C12_Witness ==
    /\ DataDone
    /\ Resp.scoreDetails.mode = "conservative"
    /\ Resp.scoreDetails.bullishWeight = 3
    /\ Resp.scoreDetails.bearishWeight = 1
    /\ Resp.scoreDetails.neutralWeight = 5
    /\ Resp.score = 22

\* Seven signals available and all of them neutral, in momentum mode.
AllNeutralReached ==
    /\ DataDone
    /\ Resp.scoreDetails.mode = "momentum"
    /\ Resp.scoreDetails.neutralWeight = 7
    /\ Resp.scoreDetails.bullishWeight + Resp.scoreDetails.bearishWeight = 0


\* C13: confidence is (bull + bear) / (bull + bear + neut) * 100, the share of
\* the directional weight in the weight of the available signals, and 0 when
\* that total is 0.
C13_Confidence ==
    DataDone =>
       LET d == Resp.scoreDetails
           active_w == d.bullishWeight + d.bearishWeight
           total_w == active_w + d.neutralWeight
       IN  /\ total_w > 0 => Resp.confidence = RoundHalfEven(active_w * 100, total_w)
           /\ total_w = 0 => Resp.confidence = 0
           /\ d.neutralWeight = 0 /\ active_w > 0 => Resp.confidence = 100
           /\ active_w = 0 => Resp.confidence = 0

\* Directional weight 4 of 9: confidence 44.
C13_Witness ==
    /\ DataDone
    /\ Resp.scoreDetails.bullishWeight = 3
    /\ Resp.scoreDetails.bearishWeight = 1
    /\ Resp.scoreDetails.neutralWeight = 5
    /\ Resp.confidence = 44

\* No signal is available: the total weight is 0.
NoWeightReached ==
    /\ DataDone
    /\ Resp.scoreDetails.availableCount = 0
    /\ Resp.confidence = 0


\* C14: whatever the signals and the mode, the score is between -100 and
\* 100 and confidence and coverage are between 0 and 100, before rounding
\* and as reported.
C14_Ranges ==
    /\ response # None => (0 - 100 <= Resp.score /\ Resp.score <= 100)
    /\ DataDone =>
          LET d == Resp.scoreDetails
              score == ScoreFraction(d.mode, d.bullishWeight, d.bearishWeight,
                                     d.neutralWeight)
              confidence == Confidence(d.bullishWeight, d.bearishWeight, d.neutralWeight)
          IN  /\ score.den > 0 /\ Abs(score.num) <= score.den
              /\ confidence.den > 0
              /\ 0 <= confidence.num /\ confidence.num <= confidence.den
              /\ 0 <= d.availableCount /\ d.availableCount <= d.totalCount
              /\ 0 <= Resp.confidence /\ Resp.confidence <= 100
              /\ 0 <= Resp.coverage /\ Resp.coverage <= 100

\* The ends of the ranges: only bearish weight, every signal available.
C14_Witness ==
    /\ DataDone
    /\ Resp.score = 0 - 100
    /\ Resp.confidence = 100
    /\ Resp.coverage = 12

ScoreTopReached == DataDone /\ Resp.score = 100 /\ Resp.scoreDetails.mode = "conservative"


\* C15: every signal get_data reports has one of the statuses bullish,
\* bearish, neutral and weight 1 or 2, whatever was fetched, an ETF-flow
\* payload that says it is still fetching included.
C15_StatusAndWeight ==
    DataDone =>
       \A k \in 1..Len(Resp.signals) :
          /\ Resp.signals[k].status \in STATUSES
          /\ Resp.signals[k].weight \in {1, 2}

\* The signals other than the ETF flow keep to the statuses and weights.
OtherSignalsStatusAndWeight ==
    DataDone =>
       \A k \in 1..Len(Resp.signals) :
          Resp.signals[k].name # "etf_flow" =>
             /\ Resp.signals[k].status \in STATUSES
             /\ Resp.signals[k].weight \in {1, 2}


\* C16: a collaborator that fails costs its signals their availability and
\* nothing else: whichever fetches fail, get_data answers with the composite
\* result, is_fallback false.
C16_FailureOnlyDegrades ==
    response # None => (~Resp.is_fallback /\ Resp.http_status = 200)

\* With a BTC price, any combination of the other fetches failing is
\* answered with the composite result over all eight signals.
OtherFailuresDegrade ==
    (results # None /\ Get(results).btc # None /\ Truthy(Get(Get(results).btc).usd)) =>
       /\ DataDone
       /\ ~Resp.is_fallback
       /\ Len(Resp.signals) = 8
       /\ Get(results).dxy = None => ~Resp.signals[2].available
       /\ Get(results).fg = None => ~Resp.signals[3].available
       /\ Get(results).ex_flow = None => ~Resp.signals[4].available
       /\ Get(results).fr = None => ~Resp.signals[5].available
       /\ Get(results).macro_yh = None => ~Resp.signals[6].available
       /\ Get(results).etf_flow = None => ~Resp.signals[7].available

\* Every fetch but the BTC price failed, and the answer is the composite result.
AllOthersFailedReached ==
    /\ DataDone
    /\ Resp.scoreDetails.availableCount = 0
    /\ ~Resp.is_fallback


\* C17: the summary carries the low-coverage warning exactly when coverage is
\* below 80 (six of eight signals available: coverage 75, warned), and a
\* warned response is still the composite result: not a fallback, with the
\* score, the confidence and all the signals.
C17_LowCoverageWarning ==
    DataDone =>
       LET d == Resp.scoreDetails
       IN  /\ Resp.summary.warning <=> d.availableCount * 100 < 80 * d.totalCount
           /\ Resp.summary.warning <=> Resp.coverage < 80
           /\ (d.availableCount = 6 /\ d.totalCount = 8) =>
                 (Resp.coverage = 75 /\ Resp.summary.warning)
           /\ (d.availableCount = 7 /\ d.totalCount = 8) => ~Resp.summary.warning
           /\ Resp.summary.warning =>
                 /\ ~Resp.is_fallback
                 /\ Resp.http_status = 200
                 /\ Len(Resp.signals) = d.totalCount
                 /\ Resp.score = ResponseData(Resp.signals, score_mode_arg).score
                 /\ Resp.confidence = ResponseData(Resp.signals, score_mode_arg).confidence

\* Six of eight signals are available and the score is not 0.
C17_Witness ==
    /\ DataDone
    /\ Resp.scoreDetails.availableCount = 6
    /\ Resp.coverage = 75
    /\ Resp.summary.warning
    /\ Resp.score # 0


\* The denominator the score was divided by (server.py:867 and 875).
UsedDenominator ==
    ScoreFraction(Resp.scoreDetails.mode, Resp.scoreDetails.bullishWeight,
                  Resp.scoreDetails.bearishWeight, Resp.scoreDetails.neutralWeight).den

\* C18: the formula reported shows the computation performed: bull_w - bear_w
\* over the denominator the score of the effective mode was divided by,
\* whatever the weight sums are, bull_w + bear_w = 0 included.
C18_FormulaIsComputation ==
    DataDone =>
       /\ Resp.scoreDetails.formula[1] = Resp.scoreDetails.bullishWeight
       /\ Resp.scoreDetails.formula[2] = Resp.scoreDetails.bearishWeight
       /\ Resp.scoreDetails.formula[3] = UsedDenominator

\* With directional weight in momentum mode, or any weight in conservative
\* mode, the formula does show the denominator used.
FormulaWithWeight ==
    DataDone =>
       LET d == Resp.scoreDetails
       IN  /\ d.formula[1] = d.bullishWeight /\ d.formula[2] = d.bearishWeight
           /\ (d.mode = "momentum" /\ d.bullishWeight + d.bearishWeight > 0) =>
                 d.formula[3] = UsedDenominator
           /\ (d.mode = "conservative"
                  /\ d.bullishWeight + d.bearishWeight + d.neutralWeight > 0) =>
                 d.formula[3] = UsedDenominator


\* C19: the mode in effect is the request's score_mode when the request has
\* one and SCORE_CALC_MODE otherwise; a value that is neither momentum nor
\* conservative is replaced by momentum; the mode reported is the mode the
\* score was computed in.
C19_EffectiveMode ==
    DataDone =>
       LET d == Resp.scoreDetails
           requested == IF score_mode_arg # None THEN Get(score_mode_arg)
                        ELSE SCORE_CALC_MODE
           bull == d.bullishWeight
           bear == d.bearishWeight
           total == bull + bear + d.neutralWeight
       IN  /\ requested \in {"momentum", "conservative"} => d.mode = requested
           /\ requested \notin {"momentum", "conservative"} => d.mode = "momentum"
           /\ d.mode = "momentum" =>
                 Resp.score = RoundHalfEven((bull - bear) * 100, Max(bull + bear, 1))
           /\ d.mode = "conservative" =>
                 Resp.score = IF total > 0 THEN RoundHalfEven((bull - bear) * 100, total)
                              ELSE 0

\* The request's mode overrides the configured one, and the two modes score
\* the signals differently.
C19_Witness ==
    /\ DataDone
    /\ SCORE_CALC_MODE = "momentum"
    /\ score_mode_arg = Some("conservative")
    /\ Resp.scoreDetails.mode = "conservative"
    /\ Resp.scoreDetails.bullishWeight = 3
    /\ Resp.scoreDetails.bearishWeight = 1
    /\ Resp.scoreDetails.neutralWeight = 5
    /\ Resp.score = 22 /\ Resp.confidence = 44

InvalidModeReached ==
    /\ DataDone
    /\ score_mode_arg = None
    /\ SCORE_CALC_MODE = "aggressive"
    /\ Resp.scoreDetails.mode = "momentum"

InvalidRequestModeReached ==
    /\ DataDone
    /\ score_mode_arg = Some("aggressive")
    /\ SCORE_CALC_MODE = "conservative"
    /\ Resp.scoreDetails.mode = "momentum"


(***************************************************************************)
(* The transition scanners.                                                *)
(***************************************************************************)
\* The entries of a date-ordered sequence of classifications at which the
\* signal is ON and the entry before, if there is one, is not ON.
TurnsOn(seq, k) == seq[k].signal = "ON" /\ (k = 1 \/ seq[k - 1].signal # "ON")

TurnOnDates(seq) == {seq[k].date : k \in {j \in 1..Len(seq) : TurnsOn(seq, j)}}

DatesOf(events) == {events[k].date : k \in 1..Len(events)}

Increasing(events) ==
    \A j, k \in 1..Len(events) : j < k => events[j].date < events[k].date

\* C20: both transition loops start from prev_signal = OFF, record an event
\* at a date exactly when the signal there is ON and the signal at the date
\* scanned before it (or the initial OFF) is not ON, and then take the
\* current signal as prev_signal.  Scores 1, 2, 3, 4, 4, 2, 4 under the
\* thresholds (4, 2) give events at indices 3 and 6 only.
C20_TransitionScan ==
    /\ LET scanned == SubSeq(hist_results, 1, hist_i)
       IN  /\ DatesOf(transitions) = TurnOnDates(scanned)
           /\ Increasing(transitions)
           /\ hist_prev_signal = IF hist_i = 0 THEN "OFF" ELSE scanned[hist_i].signal
           /\ (/\ DefaultThresholds
               /\ hist_i = 7
               /\ [k \in 1..7 |-> hist_results[k].score] = <<1, 2, 3, 4, 4, 2, 4>>) =>
                 [k \in 1..Len(transitions) |-> transitions[k].date] = <<3, 6>>
    /\ DatesOf(on_transitions) = TurnOnDates(weekly_signals)
    /\ Increasing(on_transitions)
    /\ prev_signal = IF weekly_signals = <<>> THEN "OFF"
                     ELSE weekly_signals[Len(weekly_signals)].signal

\* The example's scan is over.
C20_Witness ==
    /\ pc = "history"
    /\ DefaultThresholds
    /\ hist_i = 7
    /\ [k \in 1..7 |-> hist_results[k].score] = <<1, 2, 3, 4, 4, 2, 4>>
    /\ Len(transitions) = 2

\* The weekly loop has recorded a transition and scanned two ON dates in a row.
WeeklyTransitionReached ==
    /\ pc = "weekly"
    /\ Len(on_transitions) = 1
    /\ Len(weekly_signals) >= 2
    /\ weekly_signals[Len(weekly_signals)].signal = "ON"
    /\ weekly_signals[Len(weekly_signals) - 1].signal = "ON"


\* The dates scanned whose signal is ON right after the given signal.
OnAfterDates(seq, before) ==
    {seq[k].date : k \in {j \in 2..Len(seq) :
                             seq[j].signal = "ON" /\ seq[j - 1].signal = before}}

\* C21: the WATCH->ON list is part of the primary transition list: each of
\* its events is a primary event of the same date, and a primary event
\* that follows OFF, or the initial OFF, is not in it.
C21_WatchToOnSubset ==
    (pc = "history" /\ hist_i = Len(hist_results)) =>
       LET scanned == SubSeq(hist_results, 1, watch_i)
       IN  /\ DatesOf(watch_to_on) = OnAfterDates(scanned, "WATCH")
           /\ DatesOf(watch_to_on) \subseteq DatesOf(transitions)
           /\ \A k \in 1..Len(watch_to_on) :
                 \E j \in 1..Len(transitions) : transitions[j] = watch_to_on[k]
           /\ DatesOf(watch_to_on) \cap OnAfterDates(hist_results, "OFF") = {}
           /\ (hist_results # <<>> /\ hist_results[1].signal = "ON") =>
                 (hist_results[1].date \in DatesOf(transitions)
                     /\ hist_results[1].date \notin DatesOf(watch_to_on))

\* Both loops are over; one event follows the initial OFF, one follows WATCH.
C21_Witness ==
    /\ pc = "history"
    /\ DefaultThresholds
    /\ watch_i = 4
    /\ [k \in 1..4 |-> hist_results[k].score] = <<4, 0, 2, 4>>
    /\ Len(transitions) = 2
    /\ Len(watch_to_on) = 1


(***************************************************************************)
(* The dates the weekly scan of get_arthur_scenario_history visits.        *)
(***************************************************************************)
WeeklyDone == pc = "weekly_done"

MetricDates == DOMAIN walcl \cup DOMAIN swpt \cup DOMAIN treast

ScannedDates == {weekly_signals[k].date : k \in 1..Len(weekly_signals)}

\* C22: the scan classifies one result for each date of the union of the
\* dates of the metric series, in ascending order of date; no date that a
\* metric series has is skipped.
C22_EveryDateScanned ==
    WeeklyDone =>
       /\ ScannedDates = MetricDates
       /\ Len(weekly_signals) = Cardinality(MetricDates)
       /\ \A j, k \in 1..Len(weekly_signals) :
             j < k => weekly_signals[j].date < weekly_signals[k].date

\* What the weekly scan does visit: the dates WALCL and SWPT both have,
\* each once, in ascending order.
CommonDatesScanned ==
    WeeklyDone =>
       /\ ScannedDates = DOMAIN walcl \cap DOMAIN swpt
       /\ Len(weekly_signals) = Cardinality(DOMAIN walcl \cap DOMAIN swpt)
       /\ \A j, k \in 1..Len(weekly_signals) :
             j < k => weekly_signals[j].date < weekly_signals[k].date

\* A scan is over that has left out a date on which WALCL was observed.
WalclDateSkipped ==
    /\ WeeklyDone
    /\ \E d \in DOMAIN walcl : d \notin ScannedDates


\* The latest date of a series that is not after the given date, if there is one.
OnOrBefore(series, date) == {e \in DOMAIN series : e <= date}
MostRecentDate(series, date) ==
    CHOOSE e \in OnOrBefore(series, date) : \A f \in OnOrBefore(series, date) : f <= e

\* The dates of a series that no other date of it is nearer to the given date than.
NearestDates(series, date) ==
    {e \in DOMAIN series : \A f \in DOMAIN series : Abs(e - date) <= Abs(f - date)}

WeeklyScanning == pc \in {"weekly", "weekly_done"}

\* C23: at a scanned date, total assets, treasury and swaps are each taken
\* from the metric's latest observation on or before that date, also when
\* there is none on the date itself, and USD/JPY from the observation
\* nearest to the date.
C23_ObservationsResolved ==
    WeeklyScanning =>
       \A k \in 1..Len(weekly_signals) :
          LET date == weekly_signals[k].date
          IN  /\ walcl[date] = walcl[MostRecentDate(walcl, date)]
              /\ swpt[date] = swpt[MostRecentDate(swpt, date)]
              /\ OnOrBefore(treast, date) # {} =>
                    TreastUsed(date) = treast[MostRecentDate(treast, date)]
              /\ DOMAIN usdjpy_weekly # {} =>
                    /\ UsdjpyEntry(date) # None
                    /\ \E e \in NearestDates(usdjpy_weekly, date) :
                          Get(UsdjpyEntry(date)) = usdjpy_weekly[e]

\* What the weekly scan does: total assets and swaps from the observation
\* of the date (which the scanned dates all have), treasury from the
\* observation of the date or 0, USD/JPY from the entry of the date or none.
ExactDateLookups ==
    WeeklyScanning =>
       \A k \in 1..Len(weekly_signals) :
          LET date == weekly_signals[k].date
          IN  /\ date \in DOMAIN walcl /\ date \in DOMAIN swpt
              /\ TreastUsed(date) = IF date \in DOMAIN treast THEN treast[date] ELSE 0
              /\ UsdjpyEntry(date) = IF date \in DOMAIN usdjpy_weekly
                                     THEN Some(usdjpy_weekly[date]) ELSE None

\* A date is scanned for which TREAST has only earlier observations.
TreastEarlierOnlyReached ==
    /\ WeeklyScanning
    /\ \E k \in 1..Len(weekly_signals) :
          /\ weekly_signals[k].date \notin DOMAIN treast
          /\ OnOrBefore(treast, weekly_signals[k].date) # {}

\* A date is scanned for which USD/JPY has entries, but none of that date.
UsdjpyOtherDatesOnlyReached ==
    /\ WeeklyScanning
    /\ \E k \in 1..Len(weekly_signals) :
          /\ weekly_signals[k].date \notin DOMAIN usdjpy_weekly
          /\ DOMAIN usdjpy_weekly # {}


\* The dates of the observations in the z-score window of loop index idx.
WindowDates(idx) == Slice(swpt_keys, WindowFrom(idx), WindowTo(idx))

\* C24: at every scan date the z-score window holds swaps observations of
\* that date or earlier only, its last one is the observation of the scan
\* date, and it holds 52 observations at most, whether or not the swaps
\* series has the same dates as the scan.
C24_ZscoreWindow ==
    pc = "weekly" =>
       \A idx \in 0..(Len(dates) - 1) :
          LET window == WindowDates(idx)
              date == dates[idx + 1]
          IN  /\ window # <<>>
              /\ \A k \in 1..Len(window) : window[k] <= date
              /\ window[Len(window)] = date
              /\ Len(window) <= ZSCORE_WINDOW
              /\ Len(SwptRecent(idx)) = Len(window)

\* What does hold of the window: nothing in it is later than the scan date,
\* and it has idx + 1 observations until it is full.
WindowNotAfterDate ==
    pc = "weekly" =>
       \A idx \in 0..(Len(dates) - 1) :
          LET window == WindowDates(idx)
          IN  /\ \A k \in 1..Len(window) : window[k] <= dates[idx + 1]
              /\ Len(window) = WindowTo(idx) - WindowFrom(idx)
              /\ Len(window) <= ZSCORE_WINDOW + 1

\* SWPT has a date the scan does not visit, before one it does.
SwptDateUnscannedReached ==
    /\ pc = "weekly"
    /\ \E idx \in 0..(Len(dates) - 1) : swpt_keys[idx + 1] # dates[idx + 1]


\* Sub-condition (a) of swaps at loop index idx, from the two observations.
WeeklySwapsA(idx) ==
    /\ idx > 0
    /\ LET cur == swpt[dates[idx + 1]]
           prev == swpt[dates[idx]]
       IN  /\ prev # 0
           /\ MillionsToBillions(cur) >= SWAPS_MINIMUM_VALUE
           /\ (cur - prev) * 1000 >= SWAPS_SURGE_THRESHOLD_PCT * prev
           /\ MillionsToBillions(cur - prev) >= SWAPS_SURGE_THRESHOLD_ABS

AllEqual(seq) == \A j, k \in 1..Len(seq) : seq[j] = seq[k]

\* No z-score: fewer samples than the minimum, or no deviation among them.
NoZscore(window) == Len(window) < ZSCORE_MIN_SAMPLES \/ AllEqual(window)

\* C25: with fewer than 10 swaps samples in the window, or a window without
\* deviation, there is no z-score and sub-condition (b) does not fire: swaps
\* is met exactly when sub-condition (a) is.  The same holds of a row
\* whose z-score is undefined in evaluate_hidden_qe_conditions.
C25_NoZscoreNoSurge ==
    /\ WeeklyScanning =>
          \A k \in 1..Len(weekly_signals) :
             NoZscore(SwptRecent(k - 1)) =>
                /\ weekly_signals[k].date = dates[k]
                /\ weekly_signals[k].conditions.swaps <=> WeeklySwapsA(k - 1)
    /\ (EvalDone /\ HasChange(swpt_data) /\ Get(swpt_data).zscore = None) =>
          (Eval.conditions.swaps <=>
              SwapsASpec(Get(swpt_data).value, ChangeOf(swpt_data),
                         OrZero(Get(swpt_data).change_abs)))

\* Nine samples, the last one well above the others, and (a) not met: swaps is not met.
C25_Witness ==
    /\ WeeklyScanning
    /\ Len(weekly_signals) >= ZSCORE_MIN_SAMPLES - 1
    /\ swpt = SpikeSeries
    /\ Len(SwptRecent(ZSCORE_MIN_SAMPLES - 2)) = ZSCORE_MIN_SAMPLES - 1
    /\ ~AllEqual(SwptRecent(ZSCORE_MIN_SAMPLES - 2))
    /\ ~weekly_signals[ZSCORE_MIN_SAMPLES - 1].conditions.swaps

\* Ten samples or more without deviation, and swaps met through (a).
NoDeviationReached ==
    /\ WeeklyScanning
    /\ \E k \in 1..Len(weekly_signals) :
          /\ Len(SwptRecent(k - 1)) >= ZSCORE_MIN_SAMPLES
          /\ AllEqual(SwptRecent(k - 1))
          /\ weekly_signals[k].conditions.swaps

\* With ten samples the z-score does fire without (a).
ZscoreFiresReached ==
    /\ WeeklyScanning
    /\ \E k \in 1..Len(weekly_signals) :
          weekly_signals[k].conditions.swaps /\ ~WeeklySwapsA(k - 1)

(***************************************************************************)
(* Requests served one after another and at the same time.                 *)
(***************************************************************************)
Done(r) == rq[r].pc = "done"

\* The inputs of a served request: the other tasks' results and the ETF
\* payload handed to get_data.
SameInputs(a, b) == rq[a].v = rq[b].v /\ rq[a].etf_flow = rq[b].etf_flow

DifferentInputsReached ==
    \E a, b \in Requests :
        /\ Done(a) /\ Done(b) /\ rq[a].v = rq[b].v
        /\ Get(rq[a].response).score # Get(rq[b].response).score

\* C27: every answered request carries the ETF payload, and so the
\* response, that it would carry had it been served alone on its own
\* inputs and its own fetch: no other request's write to the cache shows.
C27_NoInterference ==
    \A r \in Requests :
        Done(r) =>
            /\ rq[r].etf_flow = rq[r].alone
            /\ rq[r].response
                   = Some(ResponseData(ServeSignals(Get(rq[r].v), rq[r].alone), None))

\* Requests served one after another are answered as if alone.
SequentialAsAlone ==
    ~overlapped => \A r \in Requests : Done(r) => rq[r].etf_flow = rq[r].alone

\* The scorer itself works on the request's own results only.
ScoredOnOwnInputs ==
    \A r \in Requests :
        Done(r) =>
            rq[r].response
                = Some(ResponseData(ServeSignals(Get(rq[r].v), rq[r].etf_flow), None))

\* A request whose own fetch failed on an empty cache is answered with the
\* payload another request put into the cache meanwhile.
InterferenceReached ==
    \E r \in Requests :
        /\ Done(r)
        /\ rq[r].alone = None
        /\ HasFlow(rq[r].etf_flow)
        /\ Get(rq[r].response).signals[7].available

(***************************************************************************)
(* _request_handler, as get_etf_flow's requests go through it.             *)
(***************************************************************************)
\* The handler has returned or raised, and get_etf_flow has not yet gone on.
HandlerOver(r) == rq[r].pc = "fetched"

\* C28: a call of _request_handler sends at most two requests, the second
\* one only when the first was answered 429 and none after it; a call ends
\* by returning the JSON of a response that is no failure, and every
\* failure, the second request's included, raises DataProviderError.
C28_BoundedRetry ==
    \A r \in Requests :
        /\ rq[r].http_requests <= 2
        /\ rq[r].http_requests = 2 => rq[r].first_status = 429
        /\ rq[r].pc = "sleep" => rq[r].http_requests = 1 /\ rq[r].first_status = 429
        /\ rq[r].pc = "request" => rq[r].http_requests = 0
        /\ HandlerOver(r) =>
              /\ rq[r].http_requests >= 1
              /\ rq[r].first_status = 429 => rq[r].http_requests = 2
              /\ rq[r].raised <=> rq[r].last_status >= 400
              /\ ~rq[r].raised => rq[r].data # None

\* The second request was answered 429 as well: the call has raised after
\* two requests.
C28_Witness ==
    \E r \in Requests :
        /\ HandlerOver(r)
        /\ rq[r].http_requests = 2
        /\ rq[r].last_status = 429
        /\ rq[r].raised

\* The retry succeeded.
RetrySucceededReached ==
    \E r \in Requests :
        /\ HandlerOver(r)
        /\ rq[r].http_requests = 2
        /\ ~rq[r].raised
        /\ HasFlow(rq[r].data)

\* A server error at the first request was not retried.
ErrorNotRetriedReached ==
    \E r \in Requests :
        /\ HandlerOver(r)
        /\ rq[r].http_requests = 1
        /\ rq[r].last_status = 500
        /\ rq[r].raised

(***************************************************************************)
(* The cache over a sequence of get_etf_flow calls.                        *)
(***************************************************************************)
\* get_etf_flow has returned to get_data.
Returned(r) == rq[r].pc = "score"

\* The call fetched a payload with a total_daily_flow.
UsableFetch(q) ==
    /\ q.http_requests >= 1
    /\ q.last_status = 200
    /\ q.data # None
    /\ Get(q.data).total_daily_flow # None

\* The call began less than 3600 s after the timestamp in the cache.
WithinDuration(q) ==
    q.seen.timestamp # None /\ q.now - Get(q.seen.timestamp) < 3600

\* C30: of calls made one after another, each one that fetched a payload
\* with a total_daily_flow leaves that payload and its own time in the
\* cache, and every other one (the fetch raised, the payload had no
\* total_daily_flow, nothing was fetched) leaves the cache as it found it;
\* a call less than 3600 s after the cached timestamp returns the cached
\* payload and sends no request; a call whose fetch raised returns the
\* payload of the cache, however old.
C30_CacheFrame ==
    ~overlapped =>
        \A r \in Requests :
            Returned(r) =>
                LET q == rq[r]
                IN  /\ IF UsableFetch(q)
                       THEN /\ etf_cache = [data |-> q.data, timestamp |-> Some(q.now)]
                            /\ q.etf_flow = q.data
                       ELSE etf_cache = q.seen
                    /\ WithinDuration(q) =>
                          q.http_requests = 0 /\ q.etf_flow = q.seen.data
                    /\ q.raised => q.etf_flow = q.seen.data

\* A call made 3600 s or more after the cached timestamp, whose fetch
\* raised, has returned the old payload; the cache is as it was.
C30_Witness ==
    /\ ~overlapped
    /\ \E r \in Requests :
          /\ Returned(r)
          /\ rq[r].raised
          /\ rq[r].seen.timestamp # None
          /\ rq[r].now - Get(rq[r].seen.timestamp) >= 3600
          /\ rq[r].etf_flow # None
          /\ rq[r].etf_flow = etf_cache.data

\* A later fetch has replaced the payload and the time in the cache.
CacheReplacedReached ==
    /\ ~overlapped
    /\ \E r \in Requests :
          /\ Returned(r)
          /\ UsableFetch(rq[r])
          /\ rq[r].seen.data # None
          /\ rq[r].seen.data # etf_cache.data
          /\ rq[r].seen.timestamp # etf_cache.timestamp

\* A call has been answered from the cache, 1800 s after it was filled.
CacheHitReached ==
    /\ ~overlapped
    /\ \E r \in Requests :
          /\ Returned(r)
          /\ WithinDuration(rq[r])
          /\ rq[r].now > Get(rq[r].seen.timestamp)
          /\ rq[r].http_requests = 0
          /\ rq[r].etf_flow # None

\* A payload without total_daily_flow was fetched over a filled cache.
NoFlowFetchedReached ==
    /\ ~overlapped
    /\ \E r \in Requests :
          /\ Returned(r)
          /\ rq[r].last_status = 200
          /\ rq[r].data # None
          /\ ~UsableFetch(rq[r])
          /\ rq[r].etf_flow = None
          /\ etf_cache.data # None

(***************************************************************************)
(* The three classifications side by side: calculate_hidden_qe_signal,     *)
(* evaluate_hidden_qe_conditions, and the loop body of                     *)
(* get_arthur_scenario_history on the observations of a scan date.         *)
(***************************************************************************)
ClassifierArgs == <<walcl_data, swpt_data, treast_data, usdjpy_data>>

LiveOn(a) == calculate_hidden_qe_signal(a[1], a[2], a[3], a[4])
EvalOn(a) == evaluate_hidden_qe_conditions(a[1], a[2], a[3], a[4])

LiveFlags(res) == [c \in CONDITIONS |-> res.details[c].met]
EvalFlags(res) == [c \in CONDITIONS |-> res.conditions[c]]

LiveEvalAgreeOn(a) ==
    /\ LiveFlags(LiveOn(a)) = EvalFlags(EvalOn(a))
    /\ LiveOn(a).score = EvalOn(a).score
    /\ LiveOn(a).signal = EvalOn(a).signal

\* The observation of a series on the scan date dates[idx + 1]: missing, or
\* its value with the change against the previous scan date, if there is one.
ObservedRow(series, idx) ==
    LET date == dates[idx + 1]
    IN  IF date \notin DOMAIN series THEN None
        ELSE Some([value |-> series[date],
                   change |-> IF idx > 0 /\ dates[idx] \in DOMAIN series
                                 /\ series[dates[idx]] # 0
                              THEN Some(PctChange(series[date], series[dates[idx]]))
                              ELSE None])

\* The z-score of the scan date in whole tenths, rounded down; -1 stands
\* for any negative one.
ZscoreTenths(idx) ==
    LET window == SwptRecent(idx)
        x == swpt[dates[idx + 1]]
    IN  IF ~WeeklyZscoreAtLeast(window, x, 0) THEN 0 - 1
        ELSE CHOOSE z \in 0..100 :
                /\ WeeklyZscoreAtLeast(window, x, z)
                /\ ~WeeklyZscoreAtLeast(window, x, z + 1)

SwapsRow(idx) ==
    LET row == ObservedRow(swpt, idx)
    IN  IF row = None THEN None
        ELSE Some([value |-> Get(row).value,
                   change |-> Get(row).change,
                   change_abs |-> IF idx > 0 /\ dates[idx] \in DOMAIN swpt
                                  THEN Some(swpt[dates[idx + 1]] - swpt[dates[idx]])
                                  ELSE None,
                   zscore |-> Some(ZscoreTenths(idx))])

UsdjpyRow(idx) ==
    LET date == dates[idx + 1]
    IN  IF date \notin DOMAIN usdjpy_weekly THEN None
        ELSE Some([value |-> usdjpy_weekly[date].value,
                   change |-> Some(usdjpy_weekly[date].change)])

ScanArgs(idx) ==
    <<ObservedRow(walcl, idx), SwapsRow(idx), ObservedRow(treast, idx), UsdjpyRow(idx)>>

\* Each observation is missing or present with a change.
PresentOrMissing(a) == \A n \in 1..4 : a[n] = None \/ Get(a[n]).change # None

WeeklyAgreesOn(entry, a) ==
    LET ev == EvalOn(a)
        lv == LiveOn(a)
    IN  /\ entry.conditions = EvalFlags(ev)
        /\ entry.conditions = LiveFlags(lv)
        /\ entry.score = ev.score /\ entry.score = lv.score
        /\ entry.signal = ev.signal /\ entry.signal = lv.signal

\* The date the scan classified last, from 0, and its observations.
LastScanned == Len(weekly_signals) - 1
LastArgs == ScanArgs(LastScanned)
LastEntry == weekly_signals[Len(weekly_signals)]
ScannedSome == WeeklyScanning /\ weekly_signals # <<>>

\* The live classifier and the script's agree on every input.
LiveEvalAgree ==
    pc \in {"live", "evaluate", "data"} => LiveEvalAgreeOn(ClassifierArgs)

\* C29: on the same four observations, each missing or present with a
\* change, and the same swaps z-score, calculate_hidden_qe_signal,
\* evaluate_hidden_qe_conditions and the weekly scan's classification give
\* the same four met flags, the same score and the same signal.
C29_ClassifiersAgree ==
    /\ LiveEvalAgree
    /\ ScannedSome =>
          LET a == LastArgs
          IN  PresentOrMissing(a) => WeeklyAgreesOn(LastEntry, a)

\* The scan agrees with the other two on the dates where TREAST was observed.
WeeklyAgreesWhenTreastObserved ==
    ScannedSome =>
        LET a == LastArgs
        IN  (PresentOrMissing(a) /\ a[3] # None) => WeeklyAgreesOn(LastEntry, a)

\* On a date without a TREAST observation the scan has met the treasury
\* condition, which the other two leave unmet.
TreasuryMetWhileMissingReached ==
    /\ ScannedSome
    /\ LET a == LastArgs
       IN  /\ a[3] = None
           /\ PresentOrMissing(a)
           /\ LastEntry.conditions.treasury
           /\ ~EvalOn(a).conditions.treasury
           /\ ~LiveOn(a).details.treasury.met
           /\ LastEntry.score = EvalOn(a).score + 1

\* The three agree on a date where all four observations have a change and
\* the z-score alone meets swaps.
AgreeOnZscoreReached ==
    /\ ScannedSome
    /\ LET a == LastArgs
       IN  /\ a[3] # None
           /\ \A n \in 1..4 : a[n] # None
           /\ PresentOrMissing(a)
           /\ WeeklyAgreesOn(LastEntry, a)
           /\ LastEntry.conditions.swaps
           /\ ~WeeklySwapsA(LastScanned)

====
